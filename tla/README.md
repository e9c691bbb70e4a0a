# A TLA+ verification of ethindexer

The indexer keeps the most recent blocks of the Ethereum chain, with their
transactions and logs, in PostgreSQL and serves them over HTTP. This project
models how it does so and checks that what is stored is right while the chain
reorganises, calls fail, processes are killed and several indexers share one
database, and that clients reading meanwhile get consistent answers.

## The system

| Part | Source | Modelled in |
|---|---|---|
| `SyncOnce`: choose a head, compare with the stored tip, find the common ancestor, fetch, write | `internal/indexer/syncer.go` | `Syncer`, `SyncerLiveness` |
| `Run`: initial sync, polling, retries, backoff | `internal/indexer/runner.go` | `Runner` |
| `FetchRange`: producer and worker pool | `internal/indexer/ranger.go` | `FetchRange`; its contract in `RangeFetch` |
| `FetchBlock` and the mapping of transactions and logs | `internal/indexer/fetcher.go` | `Bundles`; as two calls and a failure in `FetchRange` and `Syncer` |
| `ApplyCanonicalUpdate`, `CanonicalTip`, `CanonicalHash` | `internal/store/postgres_indexer.go`, validation in `memory.go` | `IndexStore`, `AtomicStore`, `PostgresStore`; fields, arguments and constraints in `Bundles` |
| Process start, services, shutdown | `cmd/indexer` | `Runtime` |
| Configuration | `internal/config` | `Config`, composed in `Runtime` |
| Ethereum endpoint and its client | `internal/ethereum`, external | `BlockTree` |
| Event pages and their cursor, transaction lookup | `internal/store/postgres_{events,transactions}.go`, `internal/server/events.go` | `Queries` |
| Row decoding, block lookup | `internal/store/postgres_{blocks,scan}.go` | `Bundles` |
| In-memory store | `internal/store/memory.go` | `MemoryStore`, `Bundles` |
| Readiness, the other handlers, JSON | rest of `internal/server` and `internal/service` | not modelled |

One process runs `Run`, which calls `SyncOnce` again and again. `SyncOnce` calls
`FetchRange` for the blocks and `ApplyCanonicalUpdate` for the write. The run
loop and the HTTP server are goroutines of one errgroup.

## Modules

* **`BlockTree`**: the blocks that ever exist. A block stands for its hash and
  so for all the hash commits to; `Number` and `Parent` are functions of it.
  `ChainOf[h]` is `h` with its ancestors, and `HeaderByNumber` is what a node
  with head `h` answers.
* **`IndexStore`**: the tables as sets of rows, and ApplyCanonicalUpdate's
  checks and effects as operators with the names of the Go functions.
  Transaction and log rows follow their block (they are inserted with it and
  deleted by cascade), so they are not represented.
* **`Syncer`**: any number of indexers. One action per read: `selectedHead`,
  `readStoredTip` (with the cases of `replacementStart` that read no more),
  `readStoredHash` and `readChainHash` (one round of `commonAncestor`),
  `fetchBlock` for each position of a range, `fetchedRange`, and
  `commitUpdate` or `rejectUpdate`. The environment acts between any two of
  them: `moveHead` lets the endpoint answer from any other chain,
  `callFails` ends the cycle with an error, `restart` kills the process and
  starts it, possibly with another window. `commitUpdate` may lose its
  acknowledgement. The write is one step; `PostgresStore` justifies it.
* **`SyncerLiveness`**: `Syncer` with an environment that goes calm at some
  point.
* **`AtomicStore`**: what callers of ApplyCanonicalUpdate rely on: each call
  takes effect at one instant or not at all.
* **`PostgresStore`**: the same calls as SQL statements of concurrent READ
  COMMITTED transactions, with the advisory lock, insert batches, failure at
  any statement, and commit. `Store == INSTANCE AtomicStore` is the refinement;
  the committed tables map to themselves.
* **`Queries`**: one API client while the indexer applies updates at any
  moment. `firstPage` is one statement; with a cursor, `checkCursor` fixes the
  snapshot of a REPEATABLE READ transaction and `nextPage` reads from it. The
  client sends back the encoded cursor it got, with any limit, again after an
  error, and also after a 409. `readTransaction` and `readTransactionEvents`
  are the two statements of `TransactionByHash`. A page is a set of events:
  `ORDER BY ... LIMIT n` is the n newest ones. `first`, `delivered` and `count`
  record what the client has seen and do not influence the steps.
* **`MemoryStore`**: `Queries` with the in-memory store beside it, which is given
  every update PostgreSQL commits.
* **`Bundles`**: one block on its way through the program: the node's answers
  (`receiveBlock`, `receiveLogs`, or `callFails`), `mapTransactions` and
  `mapEvents`, the validation both stores share, the conversion to SQL
  arguments, the constraints of the schema, the rows, and what the queries of
  both stores decode from them. The only module in which a block has contents;
  numbers keep their widths (`MaxInt32`, `MaxInt64`, `MaxUint256`), byte
  strings are told apart as nil, empty or not, and a numeric column comes back
  as digits and an exponent. `Ordered` stands for `sort.Slice` and `ORDER BY`:
  it lists a set by a key that no two members share.
* **`RangeFetch`**: what `SyncOnce` relies on: positions are filled one by one
  with blocks of their number, the call succeeds only with all of them linked,
  or fails, and nothing is written after it has returned.
* **`FetchRange`**: the goroutines of one call. A worker's block request, log
  request, error report and `cancel()` are separate steps. It implements
  `RangeFetch` (`FillsRange`).
* **`Config`**: `Load` as operators: one document over the defaults, the
  environment over both, and the checks of `Validate`.
* **`Runner`**: the run loop around an abstract `SyncOnce` that succeeds, fails
  for a while or fails permanently. Durations wrap like `int64`.
* **`Runtime`**: `Config` and `Runner` composed with the HTTP server, the
  shutdown goroutine and `main.run`. The group's context is `Runner`'s
  `canceled`. A request may hold a connection of the pool (`acquire`,
  `release`). `closeStore` is `pool.Close`: from then on `acquire` is refused,
  and `processExits` waits for the connections in use, not for requests. After
  `Shutdown` timed out a request can so meet a closed pool, or be cut off by
  the exit; `RequestsDrainFirst` says that it happens to no other request and
  that the process then reports an error.
* **`Powers`**: exact powers, for the exponents of numerics and as the
  reference for the doubling of the backoff.
* **`MC*`**: instances for TLC. `MCTrees` has the block trees.
* **`PowersProofs`, `IndexStoreProofs`, `SyncerProofs`,
  `PostgresStoreProofs`, `FetchRangeProofs`, `RuntimeProofs` (with the theorems
  about `Runner`), `QueriesProofs`, `BundlesProofs`**: theorems. The first two
  hold lemmas the others build on.

Next to some definitions stand variants with one deliberate mistake ("A
mistake: ..."). No specification uses them. Replacing a definition by its
variant breaks the property named with it in `PROJECT.json`, which shows that
the property depends on that piece of code.

## Runs

| Run | Instance | Shows |
|---|---|---|
| `one` | 1 indexer, 10 blocks on 3 branches, window 3; 58 680 states | a successful cycle leaves exactly the window of its head (`SyncedWindow`); the reported reorganisation size is the real one; the store is never emptied; it converges on the window of the head (`WindowConverges`) |
| `two` | 2 indexers, 6 blocks on 2 branches, window 2, head mode safe; 861 090 states up to symmetry | one chain, `sync_state`, retention and the origin of fetched blocks hold against stale plans; after a cycle that wrote blocks the tip is its head (`SyncedTip`) |
| `live_two` | 2 indexers, 4 blocks, window 1; 106 008 states | `TipConverges` |
| `emptied` | 2 indexers, window 1 | **violated**, see below |
| `prevalidated` | 1 indexer, window 2 | **violated**, see below |
| `fromblock` | 1 indexer, windows 1 and 2 | **violated**, see below |
| `store` | 2 writers, 11 updates; 51 732 states | `Atomic`, `NoKeyConflict`, the inductive invariant of the proof, and `EveryCallReturns` |
| `queries` | 9 events of 2 addresses in 6 blocks on 2 branches, 9 updates, pages of 1 or 2; 35 420 states | pages never mix branches, skip or repeat events; 409 only for a block that left the store; a transaction comes with exactly its events; the in-memory store agrees (`MemoryAgrees`) |
| `bundles` | blocks of up to 2 transactions and 2 logs, with a value at or beyond each limit; 1 229 states | a block `FetchBlock` accepts passes `validateCanonicalBundles`, which both stores share (`FetchedIsConsistent`; the integer bounds that `validatePostgresUpdate` adds may still refuse it); an update the store accepts converts without panic and violates no constraint (`AcceptedIsWritable`); both stores answer with the block that was fetched (`AnswersAreTheBlock`) |
| `fetch_range` | ranges of 1 to 3 blocks, an empty and an oversized one, a concurrency of 0, 2 or 4; 55 154 states | the pool implements `RangeFetch` (`FillsRange`); it always returns; the error returned is the cause; no two workers share a position |
| `runner` | 326 configurations, up to 3 retries, 4-bit durations; 9 312 states | backoff, retry count, startup, polling, cancellation |
| `runtime` | 21 files and 3 environments, up to 3 retries, 2 requests; 83 772 states | exit status, clients closed after the indexer (`ClientsOutliveIndexer`), no request cut off in silence (`RequestsDrainFirst`), no half-dead process, no configuration that `Load` accepts and `Run` refuses |

**Bounds.** `MaxUint64` is 15 and `MaxInt64` 7: wider than any block number of
the trees, and small enough that the guards at the top are evaluated. The
guards for a head or ancestor at `MaxUint64` in `replacementStart` are in the
model but cannot fire: the store refuses numbers above `MaxInt64`. In the
`Deep` tree with a window of 3 the fork point lies inside the window, at its
lower bound and below it, heads move forwards, backwards and sideways, and a
window can reach below block 0. Two indexers and two branches suffice for one
indexer to make the other's plan stale in every mode; window 1 on three
heights lets an indexer advance by a whole window. The pool is capped by the
length of the range; three workers on three positions have a failing worker,
one it cancels, and a waiting one. In `queries` a
transaction is included on both branches with different logs, one block has
two events of one address so that a page can end inside it, and a cursor's
"byte" has 4 values, so that numbers and log indexes need both of their bytes.
In
`bundles` every limit of a field has an answer at it and one beyond it, and
fees have trailing zeros in the base of the numeric column, so that the driver
may return them with an exponent. The 4-bit
durations include every pair of backoffs for which doubling overshoots or
overflows.

**Fairness.** Weak fairness of an indexer's steps: every RPC has a timeout
(`Client.callContext`), timers fire, goroutines are scheduled. Nothing is
assumed of the chain, of failures or of restarts; the convergence properties
have "the environment is calm from now on" as a premise instead, because no
fairness assumption on a fault is justified. Strong fairness of the advisory
lock: PostgreSQL serves waiters in queue order. In `Runtime` a request
gives its connection back, because the timeout middleware ends the context its
queries run under; that the request ends is not assumed (the server has no
write timeout, and a client may not read). The return of `ListenAndServe` is
fair only after `Shutdown`.

**Deadlock** is checked for `Syncer`, `PostgresStore` and `Queries`, which never stop. It
is off for `Bundles`, which ends with an answer or an error, and for
`FetchRange`, `Runner` and `Runtime`; there
`AlwaysReturns`, `CancelStops` and `ServicesStopTogether` say that they stop
only where they should.

## Disagreements found

1. **Two indexers can empty the store** (`emptied`). Indexer A finds the stored
   tip equal to its head and plans an update with nothing to insert,
   `ReplaceFrom = head + 1`. Before A applies it, B advances the store by a
   whole window. A's update then deletes all of B's blocks as replaced and
   everything else as pruned, and succeeds. The store has no tip until the next
   cycle and readiness returns 503, which the repository's README allows only
   during the initial sync or when the database fails. With one indexer this
   cannot happen (`NeverEmptied` in run `one`).
2. **An update the store refuses** (`prevalidated`). The chain switches branch
   while `commonAncestor` reads headers, and back before the blocks are
   fetched. The blocks fetched do not extend the ancestor found. The store's
   parent check catches it, but its error counts as permanent: no retry, and
   exit during startup. `domain/types.go` calls the update "pre-validated".
3. **A reported window that is not stored** (`fromblock`). After a restart with
   a larger `block_window` nothing is backfilled, but `SyncResult.FromBlock`
   and the logged `retained_blocks` are computed from the new window.

## Proofs

All theorems hold for every value of the constants: any block tree that
satisfies `BlockTreeAssumption` (numbers follow parents), any set of indexers
or writers, any windows, any `MaxInt64 < MaxUint64`.

* `TypeCorrect`, `StoreIsOneChain`, `SyncStateCorrect`, `RetentionCorrect`
  (`SyncerProofs`). None of the store invariants is inductive alone: that an
  update keeps the stored blocks one chain needs the update to be well formed,
  which depends on the cycle's locals. `LocalsConsistent` adds what they mean
  at each program point: the walk's number lies in the window, a plan starts in
  the window or right above the head, and at the write the blocks are linked,
  start at the plan and end in the head. `TypeOK /\ LocalsConsistent` is proved
  inductive, action by action (`LocalStep`); only `commitUpdate` changes the
  tables (`OnlyCommitWrites`). `UpdateKeepsOneChain` in `IndexStoreProofs` is
  the heart: any acceptable update of a one-chain table gives a one-chain
  table, with no assumption about who planned it. That is why stale plans are
  harmless to `StoredOneChain`.
* `FetchedRangeCorrect` and `SyncedTipCorrect` (`SyncerProofs`). Linked blocks
  that end in the head are one chain (`FetchedOneChain`), and in a one-chain
  table everything at or below a block is its ancestor (`BelowInChain`). After a
  commit the table is one chain that contains the head and nothing above it
  (`CommittedNumbers`), so the head is its tip and the rest are ancestors.
* `NeverEmptiedCorrect`, `SyncedWindowCorrect`, `FromBlockCorrect`,
  `ReorgCountCorrect` (`SyncerProofs`), for a single indexer (`OneIndexer`);
  the last three also for a single window (`OneWindow`), whatever restarts,
  failures and reorganisations there are. Run `emptied` shows that `NeverEmptied`
  needs the first premise, run `fromblock` that `FromBlockIsLowest` needs the
  second. With no other writer a plan cannot go
  stale (a commit is taken to happen before its call returns; one that the server
  completed only after the client gave up on it would act like a second
  indexer): `PlansFresh` says that the tip a cycle has read is still the stored
  tip, that its walk has not passed it, and that a plan starts at or right above
  that tip unless it replaces the whole window (`FreshStep`). So the updated
  table contains the head (`HeadStored`), which is `NeverEmptied`, and a
  reorganisation replaces exactly the blocks from its start to the tip, without
  a gap (`SpanCount`). With one window, `WindowFull` says that the stored blocks
  reach down to the window of their tip; a head that advances only raises the
  window's start (`WindowStartMonotone`), so after a commit nothing of the
  window is missing (`FullWindow`), and pruning leaves nothing over.
* `TransactionsConsistent`, `ImplementsAtomicStore`, `InsertsDoNotConflict`
  (`PostgresStoreProofs`). `TxConsistent` records per statement what the
  transaction has established about the committed tables. It is stable because
  a writer past the lock holds it, and a commit needs it (`TxFrame`,
  `StatementKeeps`, and the commit case of `InvStep`). At the commit the
  transaction's view is exactly the updated table (`CommitSeesUpdate`), so
  `commit` maps to `Apply`, refusals to `Reject`, and the rest to stuttering.
* `RootCauseCorrect`, `PositionsNotShared`, `ImplementsRangeFetch`
  (`FetchRangeProofs`). `JobInv` says that every position handed out is filled,
  held by one worker, or lost to an error that is in `errCh`; so an empty
  `errCh` after the last worker means a full range. `ErrorInv` says that a
  worker sees a cancellation only after the caller's context ended or after
  `errCh` was filled: the echo of a failure never comes first.
* `RunStopsOnlyWhenCanceled`, `RetryCountCorrect`, `BackoffCorrect`
  (`RuntimeProofs`), for every configuration and width of `time.Duration`. The
  retry counter is the number of waits so far, and the next backoff is the
  scheduled one for that number (`Scheduled`); the guard of `nextRetryBackoff`
  keeps doubling below the overflow, and doubling a capped power of two and
  capping it again gives the next one (`ScheduleDoubles`).
* `NeverStopsSilently`, `ReportedErrorIsTheCause`, `ClientsStayOpen`,
  `RequestsAreDrained`, `LoadedConfigAccepted` (`RuntimeProofs`), for every
  file, environment and number of requests. The invariant relates the stage of
  `main.run` to what is open and to the goroutines, every end of the context to
  a signal or an error, and the requests left when `Shutdown` returns to its
  timeout (`DrainInv`: none can arrive later); the last theorem is that `Validate` implies `validateRunConfig` for
  what `NewSyncer` is given.
* `PagesStayOnOneBranch`, `PagesRepeatNothing`, `PagesSkipNothing`,
  `StaleCursorIsStale`, `TransactionComesWhole`, `MemoryMatchesPostgres` (`QueriesProofs`), for any
  updates. Every table is one chain, so two tables that share the cursor's block
  agree below it down to the higher of their lowest blocks (`ChainUnique`,
  `NoGap`). `Paging` says that of the blocks the first page was read from
  nothing is missing down to the cursor's event, and that all that was delivered
  lies on their chain. `PageShape` gives
  the page and its cursor from `ORDER BY ... LIMIT`, `CursorRoundTrip` is that
  decoding inverts encoding. The assumptions (`QueriesAssumption`) are what
  validation and the primary keys give: log indexes are unique in a block, and
  no transaction occurs twice in one chain.
* `FetchedCorrect`, `AcceptedCorrect`, `AnswersCorrect` (`BundlesProofs`), for
  every set of answers of the node, every width, base and precision, provided
  that `MaxUint256` has at most `MaxDigits` digits and that the driver's
  exponents are within the precision (`BundlesAssumption`). The inductive
  invariant `Traced` ties each stage's data to what they were made from: the
  bundle to a block and logs that passed `FetchBlock`'s checks, the rows to a
  bundle that passed validation, the answers to the rows. `Canonical` is that
  the fetcher's checks imply `validateCanonicalBundles`, `Writable` that
  `validatePostgresUpdate` implies every conversion and constraint, and
  `ReadBack` that decoding the rows gives the bundle. The last one rests on
  `NumericRoundTrip` (whatever trailing zeros the driver moves to the exponent,
  `decodePostgresNumeric` multiplies them back) and on `OrderedIs`: a set with
  distinct keys has one ascending listing, so rows come back in the order of the
  bundle although they are stored without the block's hash (`UnhashedOrder`).
* `LeastNat` and `HighestExists` get least and greatest elements from the
  well-foundedness of the naturals; they replace induction over data, also for
  powers (`PowerRecursion`) and for the existence of an ascending listing
  (`AscendsExists`, which counts the members up to each one).

`PlansFresh`, `WindowFull` and `Traced` were checked by TLC on the instances of
`one` and `bundles` before they were proved.

Only model-checked: all liveness (`WindowConverges`, `TipConverges`,
`EveryCallReturns`, `AlwaysReturns`, `KeepsPolling`, `StartupResolves`,
`CancelStops`, `ServicesStopTogether`), because fairness is out of the prover's
reach.

## Not modelled

* Health and readiness handlers, the 400 and 404 answers of the block and
  transaction handlers, JSON, base64 and logging: stateless translations of a
  call's result. Readiness is whether a tip is stored; run `emptied` is about
  that.
* Corrupt rows: `Bundles` decodes what the store itself wrote.
* Sender recovery, transaction hashes and the types of the RPC library: they
  are what the node's answers are made of. A numeric with a negative exponent
  is allowed for, although the driver returns none for a column without
  fraction digits.
* The pool's options and size, the migrations other than the constraints of the tables,
  flag parsing with its early return for `-h`, and the syntax of YAML, durations
  and URLs.
* Contexts that end inside the in-memory store; its methods check once, at the
  start.
* Declarations: store interfaces and error values, which appear as the results
  the code tells apart.

Two differences of the stores lie outside `MemoryAgrees`, which is about the
updates PostgreSQL accepts: `Memory` has no `MaxInt64` limits, and it accepts
blocks that start above `RetainFrom` when nothing is stored below them, where
PostgreSQL misses the retained parent.

A cursor whose block was pruned is refused with 409 like one whose block was
replaced: a client that pages slowly near the lower end of the window has to
restart although nothing was reorganised. `StaleMeansGone` therefore speaks of
a block that has left the store.

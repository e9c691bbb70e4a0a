------------------------------- MODULE Bundles -------------------------------
(***************************************************************************)
(* What happens to the data of one block: the node's two answers become a  *)
(* bundle (FetchBlock), the bundle is validated and written as rows, and   *)
(* the API answers from what is read back.                                 *)
(*                                                                         *)
(* Optional values (nil pointers, NULL) are sets with at most one member.  *)
(* A byte slice is "nil", "empty" or its content; a list of topics is its  *)
(* length.  Integer widths and the decimal base are scaled down.           *)
(***************************************************************************)
EXTENDS Integers, Sequences, FiniteSets, Functions, Powers

CONSTANTS
    Nil,            \* a nil block or transaction; a column that is not there
    ChainID,
    MaxUint64, MaxInt64, MaxUint32, MaxInt32, MaxUint256,
    Base,           \* 10, the base of a numeric
    MaxDigits,      \* 78, the precision of the numeric columns
    RequestedNumber,
    BlockAnswers,   \* what the node may return for the number
    LogAnswers,     \* what it may return for the hash
    Scales          \* the exponents the driver may read numerics with

Optional(S) == {v \in SUBSET S : \A x, y \in v : x = y}

\* types.Transaction, types.Block and types.Log: what the fetcher reads of
\* them.
NodeTransaction ==
    [hash : STRING, protected : BOOLEAN, chainID : Nat,
     sender : Optional(STRING), type : 0..255, nonce : 0..MaxUint64,
     to : Optional(STRING), value : Nat, gas : 0..MaxUint64, gasPrice : Nat,
     feeCap : Nat, tipCap : Nat, data : STRING]

NodeBlock ==
    [number : 0..MaxUint64, hash : STRING, parentHash : STRING,
     time : 0..MaxUint64, gasLimit : 0..MaxUint64, gasUsed : 0..MaxUint64,
     baseFee : Optional(Nat), transactions : Seq(NodeTransaction \cup {Nil})]

NodeLog ==
    [removed : BOOLEAN, blockHash : STRING, blockNumber : 0..MaxUint64,
     index : 0..MaxUint64, txHash : STRING, txIndex : 0..MaxUint64,
     address : STRING, topics : Nat, data : STRING]

ASSUME BundlesAssumption ==
    /\ MaxUint64 \in Nat /\ MaxInt64 \in 0..(MaxUint64 - 1)
    /\ MaxUint32 \in Nat /\ MaxInt32 \in 0..(MaxUint32 - 1)
    /\ RequestedNumber \in 0..MaxUint64
    /\ Base \in Nat \ {0} /\ MaxDigits \in Nat
    /\ MaxUint256 \in Nat /\ MaxUint256 < Power(Base, MaxDigits)
    /\ BlockAnswers \subseteq NodeBlock \cup {Nil}
    /\ LogAnswers \subseteq Seq(NodeLog)
    /\ Scales \subseteq (- MaxDigits)..MaxDigits

VARIABLES
    stage,      \* how far the block has come
    block,      \* the node's block
    bundle,     \* domain.BlockBundle
    tables,     \* the rows of blocks, transactions and event_logs
    answers     \* what the API answers from PostgreSQL

vars == <<stage, block, bundle, tables, answers>>

-----------------------------------------------------------------------------
(* internal/indexer/fetcher.go *)

validateBlockNumber(b) == b.number = RequestedNumber

\* append([]byte(nil), bytes...)
appendToNil(bytes) == IF bytes = "empty" THEN "nil" ELSE bytes

\* append([]byte{}, bytes...)
appendToEmpty(bytes) == IF bytes = "nil" THEN "empty" ELSE bytes

\* sort.Slice and ORDER BY: a set's members in ascending order of a key that
\* no two of them share.
Ordered(S, key) ==
    CHOOSE s \in [1..Cardinality(S) -> S] :
        \A j, k \in DOMAIN s : j < k => key[s[j]] < key[s[k]]

byLogIndex(events) == Ordered(events, [e \in events |-> e.logIndex])

\* mapTransactions returns ErrInconsistentBlockData unless this holds.
consistentTransactions(txs) ==
    /\ Len(txs) <= MaxUint32
    /\ \A k \in DOMAIN txs :
          /\ txs[k] # Nil
          /\ txs[k].protected => txs[k].chainID = ChainID
          /\ txs[k].sender # {}
          /\ \A j \in 1..(k - 1) : txs[j].hash # txs[k].hash

\* types.LegacyTxType and types.AccessListTxType
hasGasPrice(t) == t.type \in {0, 1}

mapTransactions(b) ==
    [k \in DOMAIN b.transactions |->
        LET t == b.transactions[k] IN
        [hash |-> t.hash, blockNumber |-> b.number, blockHash |-> b.hash,
         index |-> k - 1, type |-> t.type, nonce |-> t.nonce,
         sender |-> t.sender, recipient |-> t.to, value |-> {t.value},
         gasLimit |-> t.gas,
         gasPrice |-> {p \in {t.gasPrice} : hasGasPrice(t)},
         maxFeePerGas |-> {p \in {t.feeCap} : ~ hasGasPrice(t)},
         maxPriorityFeePerGas |-> {p \in {t.tipCap} : ~ hasGasPrice(t)},
         input |-> appendToEmpty(t.data)]]

\* A mistake: the position the node reports for the transaction is believed.
reportedPosition(log, b) ==
    \E k \in DOMAIN b.transactions : b.transactions[k].hash = log.txHash

\* The transaction is in the block, at the position the log says.
knownPosition(log, b) ==
    \E k \in DOMAIN b.transactions : /\ b.transactions[k].hash = log.txHash
                                     /\ k - 1 = log.txIndex

\* mapEvents returns ErrInconsistentBlockData unless this holds.
consistentLogs(b, logs) ==
    \A k \in DOMAIN logs :
        /\ ~ logs[k].removed
        /\ logs[k].blockHash = b.hash /\ logs[k].blockNumber = b.number
        /\ logs[k].index <= MaxUint32 /\ logs[k].txIndex <= MaxUint32
        /\ logs[k].topics <= 4
        /\ knownPosition(logs[k], b)
        /\ \A j \in 1..(k - 1) : logs[j].index # logs[k].index

mapEvents(b, logs) ==
    byLogIndex({[blockNumber |-> b.number, blockHash |-> b.hash,
                 transactionHash |-> log.txHash,
                 transactionIndex |-> log.txIndex,
                 logIndex |-> log.index, address |-> log.address,
                 topics |-> log.topics,
                 data |-> appendToEmpty(log.data)] : log \in Range(logs)})

newBundle(b, logs) ==
    [block |-> [number |-> b.number, hash |-> b.hash, parentHash |-> b.parentHash,
                timestamp |-> b.time, gasLimit |-> b.gasLimit,
                gasUsed |-> b.gasUsed, baseFeePerGas |-> b.baseFee,
                transactionCount |-> Len(b.transactions)],
     transactions |-> mapTransactions(b),
     events |-> mapEvents(b, logs)]

-----------------------------------------------------------------------------
(* internal/store: validation *)

validTransactions(u) ==
    \A k \in DOMAIN u.transactions :
        LET t == u.transactions[k] IN
        /\ t.blockNumber = u.block.number /\ t.blockHash = u.block.hash
        /\ t.index = k - 1
        /\ \A j \in 1..(k - 1) : u.transactions[j].hash # t.hash

validEvents(u) ==
    \A k \in DOMAIN u.events :
        LET e == u.events[k] IN
        /\ \E j \in DOMAIN u.transactions :
              /\ u.transactions[j].hash = e.transactionHash
              /\ u.transactions[j].index = e.transactionIndex
        /\ e.blockNumber = u.block.number /\ e.blockHash = u.block.hash
        /\ e.topics <= 4
        /\ \A j \in 1..(k - 1) : u.events[j].logIndex # e.logIndex

\* What validateCanonicalBundles demands of each bundle.
validateCanonicalBundles(u) ==
    /\ u.block.transactionCount = Len(u.transactions)
    /\ Len(u.transactions) <= MaxUint32
    /\ validTransactions(u)
    /\ validEvents(u)

validateUint256(value, required) ==
    /\ required => value # {}
    /\ value \subseteq 0..MaxUint256

validatePostgresBlock(b) ==
    /\ {b.number, b.timestamp, b.gasLimit, b.gasUsed} \subseteq 0..MaxInt64
    /\ b.transactionCount <= MaxInt32
    /\ validateUint256(b.baseFeePerGas, FALSE)

validatePostgresTransaction(t) ==
    /\ {t.blockNumber, t.nonce, t.gasLimit} \subseteq 0..MaxInt64
    /\ t.index <= MaxInt32
    /\ validateUint256(t.value, TRUE)
    /\ \A fee \in {t.gasPrice, t.maxFeePerGas, t.maxPriorityFeePerGas} :
          validateUint256(fee, FALSE)

validatePostgresUpdate(u) ==
    /\ validateCanonicalBundles(u)
    /\ validatePostgresBlock(u.block)
    /\ \A k \in DOMAIN u.transactions :
          validatePostgresTransaction(u.transactions[k])
    /\ \A k \in DOMAIN u.events : /\ u.events[k].transactionIndex <= MaxInt32
                                  /\ u.events[k].logIndex <= MaxInt32

-----------------------------------------------------------------------------
(* internal/store: rows *)

\* The arguments of postgresInt64, and those of postgresInt32 and
\* postgresCount, when the batch is built; they panic when one does not fit.
bigints(u) ==
    {u.block.number, u.block.timestamp, u.block.gasLimit, u.block.gasUsed}
        \cup {e.blockNumber : e \in Range(u.events)}
        \cup UNION {{t.blockNumber, t.nonce, t.gasLimit} :
                       t \in Range(u.transactions)}

integers(u) ==
    {u.block.transactionCount}
        \cup {t.index : t \in Range(u.transactions)}
        \cup UNION {{e.transactionIndex, e.logIndex} : e \in Range(u.events)}

argumentsFit(u) ==
    bigints(u) \subseteq 0..MaxInt64 /\ integers(u) \subseteq 0..MaxInt32

\* The block's hash is a column of blocks only.
queueBundle(u) ==
    [block        |-> u.block,
     transactions |-> [k \in DOMAIN u.transactions |->
                          [u.transactions[k] EXCEPT !.blockHash = Nil]],
     events       |-> [k \in DOMAIN u.events |->
                          [u.events[k] EXCEPT !.blockHash = Nil]]]

numericFits(value) == value \subseteq 0..(Power(Base, MaxDigits) - 1)

\* The NOT NULL, CHECK, PRIMARY KEY, UNIQUE and REFERENCES clauses, without the
\* ">= 0" of integer columns, which argumentsFit already gives.
blockRowAllowed(b) == numericFits(b.baseFeePerGas)

transactionRowAllowed(rows, k) ==
    LET t == rows.transactions[k] IN
    /\ t.blockNumber = rows.block.number
    /\ t.type \in 0..255
    /\ t.value # {} /\ t.input # "nil"
    /\ \A v \in {t.value, t.gasPrice, t.maxFeePerGas, t.maxPriorityFeePerGas} :
          numericFits(v)
    /\ \A j \in 1..(k - 1) : /\ rows.transactions[j].hash # t.hash
                             /\ rows.transactions[j].index # t.index

eventRowAllowed(rows, k) ==
    LET e == rows.events[k] IN
    /\ e.blockNumber = rows.block.number
    /\ \E t \in Range(rows.transactions) : t.hash = e.transactionHash
    /\ e.topics \in 0..4
    /\ e.data # "nil"
    /\ \A j \in 1..(k - 1) : rows.events[j].logIndex # e.logIndex

constraintsHold(rows) ==
    /\ blockRowAllowed(rows.block)
    /\ \A k \in DOMAIN rows.transactions : transactionRowAllowed(rows, k)
    /\ \A k \in DOMAIN rows.events : eventRowAllowed(rows, k)

\* pgx reads a numeric as an integer and an exponent.  It moves trailing zeros
\* to the exponent (up to scale of them); a negative scale writes the integer
\* with a fraction of zeros, which decodePostgresNumeric provides for.
readNumeric(value, scale) ==
    {IF scale < 0 THEN [int |-> v * Power(Base, - scale), exp |-> scale]
     ELSE LET e == CHOOSE e \in 0..scale :
                      /\ v % Power(Base, e) = 0
                      /\ \A f \in 0..scale : v % Power(Base, f) = 0 => f <= e
          IN  [int |-> v \div Power(Base, e), exp |-> e] : v \in value}

\* A mistake: a positive exponent is not multiplied out.
exponentIgnored(n) == {n.int}

\* The integer an (int, exp) pair stands for, unless it is none.
integerOf(n) ==
    IF n.exp >= 0 THEN {n.int * Power(Base, n.exp)}
    ELSE IF n.int % Power(Base, - n.exp) # 0 THEN {}
    ELSE {n.int \div Power(Base, - n.exp)}

\* decodePostgresNumeric: its error, and its value.
numericDecodes(value, required) ==
    /\ required => value # {}
    /\ \A n \in value : /\ n.exp \in (- MaxDigits)..MaxDigits
                        /\ integerOf(n) # {}
                        /\ integerOf(n) \subseteq 0..MaxUint256

decodePostgresNumeric(value) == UNION {integerOf(n) : n \in value}

\* Decoding fails with ErrInconsistentData unless these hold.
blockDecodes(b, scale) ==
    /\ {b.number, b.timestamp, b.gasLimit, b.gasUsed} \subseteq Nat
    /\ numericDecodes(readNumeric(b.baseFeePerGas, scale), FALSE)
    /\ b.transactionCount >= 0

transactionDecodes(t, scale) ==
    /\ {t.blockNumber, t.index, t.nonce, t.gasLimit} \subseteq Nat
    /\ t.type \in 0..255
    /\ numericDecodes(readNumeric(t.value, scale), TRUE)
    /\ \A v \in {t.gasPrice, t.maxFeePerGas, t.maxPriorityFeePerGas} :
          numericDecodes(readNumeric(v, scale), FALSE)

eventDecodes(e) ==
    /\ {e.blockNumber, e.transactionIndex, e.logIndex} \subseteq Nat
    /\ e.topics <= 4

decodeBlock(b, scale) ==
    [b EXCEPT !.baseFeePerGas = decodePostgresNumeric(readNumeric(@, scale))]

decodeTransaction(rows, t, scale) ==
    [t EXCEPT
        !.blockHash            = rows.block.hash,
        !.value                = decodePostgresNumeric(readNumeric(@, scale)),
        !.gasPrice             = decodePostgresNumeric(readNumeric(@, scale)),
        !.maxFeePerGas         = decodePostgresNumeric(readNumeric(@, scale)),
        !.maxPriorityFeePerGas = decodePostgresNumeric(readNumeric(@, scale)),
        !.input                = appendToNil(@)]

decodeEvent(rows, e) ==
    [e EXCEPT !.blockHash = rows.block.hash, !.data = appendToNil(@)]

-----------------------------------------------------------------------------
(* internal/server: responses; {} is 500 internal_error *)

\* hexutil.Encode
hex(bytes) == IF bytes \in {"nil", "empty"} THEN "0x" ELSE bytes

newBlockResponse(b, hashes) == {[block |-> b, transactionHashes |-> hashes]}

newEventResponse(e) == [e EXCEPT !.data = hex(@)]

newTransactionResponse(t, events) ==
    {[transaction |-> [t EXCEPT !.input = hex(@)],
      events      |-> [k \in DOMAIN events |-> newEventResponse(events[k])]]
       : v \in t.value}

Hashes(txs) == [k \in DOMAIN txs |-> txs[k].hash]

\* Both stores list a transaction's events by log index.
EventsOf(events, hash) ==
    byLogIndex({e \in Range(events) : e.transactionHash = hash})

\* Memory.BlockByNumber and Memory.TransactionByHash, from a cloned bundle.
cloneTransaction(t) == [t EXCEPT !.input = appendToNil(@)]

cloneEvent(e) == [e EXCEPT !.data = appendToNil(@)]

memoryAnswers(u) ==
    [block |-> newBlockResponse(u.block, Hashes(u.transactions)),
     transactions |->
        [k \in DOMAIN u.transactions |->
            newTransactionResponse(
                cloneTransaction(u.transactions[k]),
                LET events == EventsOf(u.events, u.transactions[k].hash)
                IN  [j \in DOMAIN events |-> cloneEvent(events[j])])]]

\* Postgres.BlockByNumber: ORDER BY transaction_index, and the count.
postgresBlock(rows, scale) ==
    LET stored == Range(rows.transactions)
        txs    == Ordered(stored, [t \in stored |-> t.index])
    IN  IF /\ blockDecodes(rows.block, scale)
           /\ Len(txs) = rows.block.transactionCount
        THEN newBlockResponse(decodeBlock(rows.block, scale), Hashes(txs))
        ELSE {}

\* Postgres.TransactionByHash: the row and its events.
postgresTransaction(rows, t, scale) ==
    LET events == EventsOf(rows.events, t.hash)
    IN  IF /\ transactionDecodes(t, scale)
           /\ \A e \in Range(events) : eventDecodes(e)
        THEN newTransactionResponse(
                 decodeTransaction(rows, t, scale),
                 [k \in DOMAIN events |-> decodeEvent(rows, events[k])])
        ELSE {}

postgresAnswers(rows, scale) ==
    [block |-> postgresBlock(rows, scale),
     transactions |->
        [k \in DOMAIN rows.transactions |->
            postgresTransaction(rows, rows.transactions[k], scale)]]

-----------------------------------------------------------------------------
Init ==
    /\ stage = "requested"
    /\ block = Nil /\ bundle = Nil /\ tables = Nil /\ answers = Nil

consistentBlock(b) ==
    /\ b # Nil
    /\ validateBlockNumber(b)
    /\ consistentTransactions(b.transactions)

\* FetchBlock receives the block and maps its transactions.
receiveBlock(b) ==
    /\ stage = "requested"
    /\ \/ /\ ~ consistentBlock(b)
          /\ stage' = "inconsistent"
          /\ UNCHANGED block
       \/ /\ consistentBlock(b)
          /\ stage' = "block"
          /\ block' = b
    /\ UNCHANGED <<bundle, tables, answers>>

\* It receives the logs, maps them and returns the bundle.
receiveLogs(logs) ==
    /\ stage = "block"
    /\ \/ /\ ~ consistentLogs(block, logs)
          /\ stage' = "inconsistent"
          /\ UNCHANGED bundle
       \/ /\ consistentLogs(block, logs)
          /\ stage' = "fetched"
          /\ bundle' = newBundle(block, logs)
    /\ UNCHANGED <<block, tables, answers>>

\* BlockByNumber or LogsByBlockHash returns an error.
callFails ==
    /\ stage \in {"requested", "block"}
    /\ stage' = "failed"
    /\ UNCHANGED <<block, bundle, tables, answers>>

\* ApplyCanonicalUpdate with this one bundle.
applyUpdate ==
    /\ stage = "fetched"
    /\ stage' = IF ~ validatePostgresUpdate(bundle) THEN "invalid"
                ELSE IF ~ argumentsFit(bundle) THEN "panic"
                ELSE IF ~ constraintsHold(queueBundle(bundle))
                     THEN "constraint violated"
                ELSE "stored"
    /\ tables' = IF stage' = "stored" THEN queueBundle(bundle) ELSE Nil
    /\ UNCHANGED <<block, bundle, answers>>

\* The API is asked for the block and for each of its transactions.
query(scale) ==
    /\ stage = "stored"
    /\ stage' = "answered"
    /\ answers' = postgresAnswers(tables, scale)
    /\ UNCHANGED <<block, bundle, tables>>

Next ==
    \/ \E b \in BlockAnswers : receiveBlock(b)
    \/ \E logs \in LogAnswers : receiveLogs(logs)
    \/ callFails
    \/ applyUpdate
    \/ \E scale \in Scales : query(scale)

Spec == Init /\ [][Next]_vars

-----------------------------------------------------------------------------
\* The fetcher and the store agree on what a consistent block is: nothing that
\* FetchBlock returns is refused by validateCanonicalBundles, whose error Run
\* does not retry.
FetchedIsConsistent == stage = "fetched" => validateCanonicalBundles(bundle)

\* What validatePostgresUpdate lets through can be written: no conversion
\* helper panics and no clause of the schema is violated, so the insert cannot
\* fail again on every retry.
AcceptedIsWritable == stage \notin {"panic", "constraint violated"}

\* The store is transparent: the API answers from PostgreSQL with the block and
\* the transactions the node returned, without an error, however the driver
\* reads numerics, and with what it would answer from Memory.
AnswersAreTheBlock ==
    stage = "answered" =>
        /\ answers = memoryAnswers(bundle)
        /\ \A r \in answers.block : /\ r.block.hash = block.hash
                                    /\ r.block.baseFeePerGas = block.baseFee
        /\ \A k \in DOMAIN block.transactions :
              \E r \in answers.transactions[k] :
                  /\ r.transaction.hash = block.transactions[k].hash
                  /\ r.transaction.value = {block.transactions[k].value}
                  /\ r.transaction.input = hex(block.transactions[k].data)
=============================================================================

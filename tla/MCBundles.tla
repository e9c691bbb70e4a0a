------------------------------ MODULE MCBundles ------------------------------
(***************************************************************************)
(* Answers of the node: blocks of at most two transactions and two logs    *)
(* that differ from a plain one in one respect each.                       *)
(***************************************************************************)
EXTENDS Bundles

MCScales == {-1, 0, MaxDigits}

Plain ==
    [hash |-> "t1", protected |-> TRUE, chainID |-> ChainID,
     sender |-> {"alice"}, type |-> 0, nonce |-> 0, to |-> {"bob"},
     value |-> 9, gas |-> 1, gasPrice |-> 3, feeCap |-> 4, tipCap |-> 2,
     data |-> "code"]

Second == [Plain EXCEPT !.hash = "t2", !.type = 2, !.data = "nil", !.value = 0]

Transactions ==
    {Nil, Plain, Second,
     [Plain EXCEPT !.protected = FALSE, !.chainID = 0, !.data = "empty"],
     [Plain EXCEPT !.chainID = ChainID + 1],
     [Plain EXCEPT !.sender = {}],
     [Plain EXCEPT !.nonce = MaxInt64],
     [Plain EXCEPT !.nonce = MaxInt64 + 1],
     [Plain EXCEPT !.value = MaxUint256],
     [Plain EXCEPT !.value = MaxUint256 + 1],
     [Plain EXCEPT !.type = 2, !.feeCap = MaxUint256 + 1],
     [Second EXCEPT !.to = {}]}

PlainBlock(txs) ==
    [number |-> RequestedNumber, hash |-> "b", parentHash |-> "a", time |-> 1,
     gasLimit |-> 2, gasUsed |-> 2, baseFee |-> {6}, transactions |-> txs]

Odd(b) ==
    {[b EXCEPT !.number = RequestedNumber + 1],
     [b EXCEPT !.time = MaxInt64 + 1],
     [b EXCEPT !.baseFee = {}],
     [b EXCEPT !.baseFee = {MaxUint256 + 1}]}

MCBlockAnswers ==
    {Nil} \cup {PlainBlock(txs) : txs \in UNION {[1..n -> Transactions] : n \in 0..2}}
          \cup Odd(PlainBlock(<<Plain>>))

PlainLog ==
    [removed |-> FALSE, blockHash |-> "b", blockNumber |-> RequestedNumber,
     index |-> 1, txHash |-> "t1", txIndex |-> 0, address |-> "c",
     topics |-> 4, data |-> "d"]

Logs ==
    {PlainLog,
     [PlainLog EXCEPT !.index = 0, !.data = "empty"],
     [PlainLog EXCEPT !.index = 0, !.txHash = "t2", !.txIndex = 1, !.data = "nil"],
     [PlainLog EXCEPT !.removed = TRUE],
     [PlainLog EXCEPT !.blockHash = "fork"],
     [PlainLog EXCEPT !.blockNumber = RequestedNumber + 1],
     [PlainLog EXCEPT !.index = MaxInt32],
     [PlainLog EXCEPT !.index = MaxUint32],
     [PlainLog EXCEPT !.index = MaxUint32 + 1],
     [PlainLog EXCEPT !.txIndex = 1],
     [PlainLog EXCEPT !.txIndex = MaxUint32 + 1],
     [PlainLog EXCEPT !.topics = 5],
     [PlainLog EXCEPT !.topics = 0]}

MCLogAnswers == UNION {[1..n -> Logs] : n \in 0..2}

=============================================================================

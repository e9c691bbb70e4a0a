------------------------------ MODULE BlockTree ------------------------------
(***************************************************************************)
(* The blocks an Ethereum node can serve, as the indexer sees them.        *)
(*                                                                         *)
(* A block is identified by its hash, so a member of Block stands for a    *)
(* hash together with everything the hash commits to: the number, the      *)
(* parent hash, the transactions and the logs.  The node itself is not     *)
(* part of the repository; internal/ethereum only wraps its JSON-RPC calls *)
(* with a timeout.                                                         *)
(***************************************************************************)
EXTENDS Integers, FiniteSets

CONSTANTS
    Block,      \* the block hashes that ever exist
    NoBlock,    \* no block: a nil tip, a missing row, an unfilled position
    Number,     \* block -> its number
    Parent,     \* block -> its parent, NoBlock below the modelled part
    MaxUint64   \* the largest uint64 (scaled down by TLC's instances)

ASSUME BlockTreeAssumption ==
    /\ NoBlock \notin Block
    /\ MaxUint64 \in Nat
    /\ Number \in [Block -> 0..MaxUint64]
    /\ Parent \in [Block -> Block \cup {NoBlock}]
    /\ \A b \in Block :
          Parent[b] # NoBlock => Number[b] = Number[Parent[b]] + 1

ParentClosed(S) == \A b \in S : Parent[b] # NoBlock => Parent[b] \in S

\* A block's chain: itself and its ancestors, the least set that holds the
\* block and, with each member, the member's parent.
ChainOf ==
    [h \in Block |->
        {b \in Block : \A S \in SUBSET Block :
            h \in S /\ ParentClosed(S) => b \in S}]

\* What a node whose chain ends in h returns for a number: at most one block.
HeaderByNumber(h, n) == {b \in ChainOf[h] : Number[b] = n}
=============================================================================

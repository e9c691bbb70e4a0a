------------------------------ MODULE MCSyncer ------------------------------
EXTENDS Syncer, MCTrees

\* Two indexers are interchangeable in the safety runs.
Indexers == Permutations(Indexer)
=============================================================================

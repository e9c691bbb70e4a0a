-------------------------- MODULE MCSyncerLiveness --------------------------
EXTENDS SyncerLiveness, MCTrees
=============================================================================

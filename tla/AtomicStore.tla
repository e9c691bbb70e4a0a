----------------------------- MODULE AtomicStore -----------------------------
(***************************************************************************)
(* What ApplyCanonicalUpdate promises its callers: each call takes effect  *)
(* at one instant or not at all, and is rejected only when the tables of   *)
(* that instant do not admit it.  An error other than a rejection leaves   *)
(* open whether the update took effect.                                    *)
(***************************************************************************)
EXTENDS IndexStore

CONSTANTS
    Writer,     \* the concurrent callers
    Updates     \* the updates they may pass

VARIABLES
    blocks,     \* the rows of table blocks
    syncState,  \* the rows of table sync_state
    update,     \* the update each writer passed last
    outcome     \* pending, or how its last call ended

vars == <<blocks, syncState, update, outcome>>

Init ==
    /\ blocks = {}
    /\ syncState = {}
    /\ update \in [Writer -> Updates]
    /\ outcome = [w \in Writer |-> "none"]

Call(w) ==
    /\ outcome[w] # "pending"
    /\ \E u \in Updates : update' = [update EXCEPT ![w] = u]
    /\ outcome' = [outcome EXCEPT ![w] = "pending"]
    /\ UNCHANGED <<blocks, syncState>>

Apply(w) ==
    /\ outcome[w] = "pending"
    /\ Acceptable(blocks, syncState, update[w])
    /\ blocks' = UpdatedBlocks(blocks, update[w])
    /\ syncState' = UpdatedSyncState(blocks, syncState, update[w])
    /\ \E o \in {"applied", "failed"} : outcome' = [outcome EXCEPT ![w] = o]
    /\ UNCHANGED update

Reject(w) ==
    /\ outcome[w] = "pending"
    /\ ~ Acceptable(blocks, syncState, update[w])
    /\ outcome' = [outcome EXCEPT ![w] = "rejected"]
    /\ UNCHANGED <<blocks, syncState, update>>

Fail(w) ==
    /\ outcome[w] = "pending"
    /\ outcome' = [outcome EXCEPT ![w] = "failed"]
    /\ UNCHANGED <<blocks, syncState, update>>

Next == \E w \in Writer : Call(w) \/ Apply(w) \/ Reject(w) \/ Fail(w)

Spec == Init /\ [][Next]_vars
=============================================================================

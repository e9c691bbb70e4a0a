------------------------------ MODULE RangeFetch ------------------------------
(***************************************************************************)
(* What FetchRange promises SyncOnce: every position of the range is       *)
(* written at most once, with a block of its number, and the call succeeds *)
(* only with every position written and each block extending the one       *)
(* before it.  Nothing is written once the call has ended.                 *)
(***************************************************************************)
EXTENDS BlockTree

VARIABLES
    from, to,   \* the arguments
    filled,     \* position -> the block stored there, or NoBlock
    outcome     \* none until the call ends, then ok or failed

vars == <<from, to, filled, outcome>>

Position == 1..(to - from + 1)

Init ==
    /\ from \in 0..MaxUint64
    /\ to \in 0..MaxUint64
    /\ filled = [k \in Position |-> NoBlock]
    /\ outcome = "none"

Fill(k) ==
    /\ outcome = "none"
    /\ filled[k] = NoBlock
    /\ \E b \in Block :
          /\ Number[b] = from + k - 1
          /\ filled' = [filled EXCEPT ![k] = b]
    /\ UNCHANGED <<from, to, outcome>>

Complete ==
    /\ Position # {}
    /\ \A k \in Position :
          /\ filled[k] # NoBlock
          /\ k > 1 => Parent[filled[k]] = filled[k-1]

Succeed ==
    /\ outcome = "none"
    /\ Complete
    /\ outcome' = "ok"
    /\ UNCHANGED <<from, to, filled>>

Fail ==
    /\ outcome = "none"
    /\ outcome' = "failed"
    /\ UNCHANGED <<from, to, filled>>

Next == (\E k \in Position : Fill(k)) \/ Succeed \/ Fail

Spec == Init /\ [][Next]_vars
=============================================================================

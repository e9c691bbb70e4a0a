--------------------------- MODULE SyncerLiveness ---------------------------
(***************************************************************************)
(* Convergence of the indexers once their environment settles.             *)
(*                                                                         *)
(* The environment may move the chain head, fail calls and kill processes  *)
(* as often as it likes, and then goes calm for good.  From there on only  *)
(* the indexers act.                                                       *)
(***************************************************************************)
EXTENDS Syncer

VARIABLE calm

liveVars == <<vars, calm>>

LiveInit == Init /\ calm = FALSE

settle == ~ calm /\ calm' = TRUE /\ UNCHANGED vars

LiveNext ==
    \/ settle
    \/ ~ calm /\ Next /\ UNCHANGED calm
    \/ calm /\ (\E i \in Indexer : Step(i)) /\ UNCHANGED calm

\* Every wait of a running indexer ends: timers fire, calls return or time
\* out (ethereum.Client bounds each of them), the advisory lock is released
\* with its transaction, and goroutines are scheduled.
Fairness == \A i \in Indexer : WF_liveVars(Step(i) /\ UNCHANGED calm)

LiveSpec == LiveInit /\ [][LiveNext]_liveVars /\ Fairness

-----------------------------------------------------------------------------
\* Once the environment is calm, the store comes to hold the window of the
\* chain head and keeps it: no failed cycle leaves an indexer or the store in
\* a state from which polling cannot recover.
WindowConverges ==
    <>calm => <>[](\E w \in Windows :
        blocks = {b \in ChainOf[view] :
                    Number[b] >= windowStart(Number[view], w)})

\* Several indexers sharing the store agree on the chain head in the end,
\* although a plan made from a tip that has moved may truncate what another
\* indexer wrote.
TipConverges == <>calm => <>[](CanonicalTip(blocks) = view)
=============================================================================

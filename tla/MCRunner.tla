------------------------------ MODULE MCRunner ------------------------------
EXTENDS Runner

Valid == [dependencies |-> TRUE, chainID |-> 1, fetcherChainID |-> 1,
          blockWindow |-> 2, rpcConcurrency |-> 1, headMode |-> "safe",
          pollInterval |-> 1, retryAttempts |-> 1,
          retryMinBackoff |-> 1, retryMaxBackoff |-> 1]

\* Every schedule of a small range, and configurations Run refuses.
MCConfigs ==
    {[Valid EXCEPT !.retryAttempts = n, !.retryMinBackoff = min,
                   !.retryMaxBackoff = max] :
        n \in -1..3, min \in 0..7, max \in 0..7}
    \cup {[Valid EXCEPT !.dependencies = FALSE],
          [Valid EXCEPT !.fetcherChainID = 2],
          [Valid EXCEPT !.blockWindow = MaxBlockWindow + 1],
          [Valid EXCEPT !.rpcConcurrency = 0],
          [Valid EXCEPT !.headMode = "pending"],
          [Valid EXCEPT !.pollInterval = 0]}

MCInit == config \in MCConfigs /\ RunnerIdle

MCSpec == MCInit /\ [][RunnerNext]_runnerVars /\ RunnerFairness
=============================================================================

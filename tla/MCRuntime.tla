------------------------------ MODULE MCRuntime ------------------------------
EXTENDS Runtime, TLC

URLs == [rpcURL |-> "http", databaseURL |-> "postgres"]

\* Single faults and edges of the fields Load and Run both look at, one field
\* off at a time and in the pairs a check compares.
Documents ==
    {[retryAttempts |-> 1], [retryAttempts |-> 0], [retryAttempts |-> -1],
     [blockWindow |-> 0], [blockWindow |-> 51], [blockWindow |-> 1],
     [rpcConcurrency |-> 0], [rpcConcurrency |-> 65], [chainID |-> 0],
     [chainID |-> 2], [headMode |-> "pending"], [pollInterval |-> 0],
     [retryMinBackoff |-> 0], [retryMinBackoff |-> 11, retryAttempts |-> 0],
     [retryMinBackoff |-> 1, retryMaxBackoff |-> 1, retryAttempts |-> 1],
     [logLevel |-> "loud"], [minConnections |-> 13], [block_windw |-> 5]}

MCFiles == {<<d @@ URLs>> : d \in Documents} \cup {<< >>, <<URLs, URLs>>, <<[address |-> ":80"]>>}

MCEnvironments ==
    {[ETH_RPC_URL |-> "", DATABASE_URL |-> "", LOG_LEVEL |-> ""],
     [ETH_RPC_URL |-> "https", DATABASE_URL |-> "postgresql", LOG_LEVEL |-> "loud"],
     [ETH_RPC_URL |-> "https", DATABASE_URL |-> "postgresql", LOG_LEVEL |-> "warn"]}
=============================================================================

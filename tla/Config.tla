-------------------------------- MODULE Config --------------------------------
(***************************************************************************)
(* internal/config: Load puts one YAML document over the defaults, then    *)
(* the environment variables over both, and validates the result.          *)
(*                                                                         *)
(* Durations are in seconds.  "" stands for a blank text.  A URL is        *)
(* represented by its scheme, and by "invalid" when it does not parse or   *)
(* has no host.                                                            *)
(***************************************************************************)
EXTENDS Integers, Sequences

CONSTANT MaxBlockWindow     \* domain.MaxBlockWindow

ASSUME MaxBlockWindowAssumption == MaxBlockWindow \in Nat

HeadMode == {"latest", "safe", "finalized"}

Default ==
    [environment |-> "development", logLevel |-> "info",
     address |-> ":8080", requestTimeout |-> 5, readHeaderTimeout |-> 5,
     idleTimeout |-> 60, shutdownTimeout |-> 15,
     rpcURL |-> "", chainID |-> 1, rpcTimeout |-> 30, rpcConcurrency |-> 4,
     pollInterval |-> 4, blockWindow |-> 50, headMode |-> "latest",
     retryAttempts |-> 3, retryMinBackoff |-> 1, retryMaxBackoff |-> 10,
     databaseURL |-> "", maxConnections |-> 12, minConnections |-> 2,
     connectTimeout |-> 10]

\* Decode sets the fields the document names and leaves the others alone.
Decode(document) ==
    [field \in DOMAIN Default |->
        IF field \in DOMAIN document THEN document[field] ELSE Default[field]]

\* A blank variable overrides nothing.
applyEnvironment(cfg, env) ==
    LET Or(value, old) == IF value = "" THEN old ELSE value
    IN  [cfg EXCEPT !.rpcURL = Or(env.ETH_RPC_URL, @),
                    !.databaseURL = Or(env.DATABASE_URL, @),
                    !.logLevel = Or(env.LOG_LEVEL, @)]

validateURL(url, allowedSchemes) == url \in allowedSchemes

positiveDurations(cfg) ==
    /\ cfg.requestTimeout > 0
    /\ cfg.readHeaderTimeout > 0
    /\ cfg.idleTimeout > 0
    /\ cfg.shutdownTimeout > 0
    /\ cfg.rpcTimeout > 0
    /\ cfg.pollInterval > 0
    /\ cfg.retryMinBackoff > 0
    /\ cfg.retryMaxBackoff > 0
    /\ cfg.connectTimeout > 0

\* A mistake: the minimum is not compared with the maximum.
backoffUnordered(cfg) == TRUE

backoffOrdered(cfg) == cfg.retryMinBackoff <= cfg.retryMaxBackoff

Validate(cfg) ==
    /\ cfg.environment # "" /\ cfg.logLevel # "" /\ cfg.address # ""
    /\ positiveDurations(cfg)
    /\ validateURL(cfg.rpcURL, {"http", "https"})
    /\ cfg.chainID = 1
    /\ cfg.rpcConcurrency >= 1 /\ cfg.rpcConcurrency <= 64
    /\ cfg.blockWindow # 0 /\ cfg.blockWindow <= MaxBlockWindow
    /\ cfg.headMode \in HeadMode
    /\ cfg.retryAttempts >= 0
    /\ backoffOrdered(cfg)
    /\ validateURL(cfg.databaseURL, {"postgres", "postgresql"})
    /\ cfg.maxConnections >= 1
    /\ cfg.minConnections >= 0 /\ cfg.minConnections <= cfg.maxConnections

\* A file is the sequence of its YAML documents, << >> when it cannot be
\* opened or is empty.  A document maps the fields it sets to their values; an
\* entry that does not decode stands under a name that is not a field's.
\* The result is the configuration, or nothing when Load fails.
Load(file, env) ==
    LET cfg == applyEnvironment(Decode(file[1]), env)
    IN  IF /\ Len(file) = 1
           /\ DOMAIN file[1] \subseteq DOMAIN Default
           /\ Validate(cfg)
        THEN {cfg}
        ELSE {}
=============================================================================

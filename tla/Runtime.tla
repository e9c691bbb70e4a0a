-------------------------------- MODULE Runtime --------------------------------
(***************************************************************************)
(* The process: main.run opens the database pool and the RPC client, and   *)
(* runServices then runs three goroutines in one errgroup: the indexer     *)
(* (module Runner), the HTTP server, and one that shuts the server down    *)
(* when the group's context ends.  That context, canceled in Runner, ends  *)
(* with a signal or with the first goroutine that returns an error.        *)
(***************************************************************************)
EXTENDS Runner

CONSTANTS
    Files,          \* the configuration files the process may find
    Environments,   \* the values of the variables applyEnvironment reads
    LogLevels,      \* the level names zerolog.ParseLevel knows
    MaxRequests     \* bound on the HTTP requests in progress

ASSUME RuntimeAssumption == MaxRequests \in Nat

VARIABLES
    process,    \* where main.run is
    file,       \* the configuration file
    env,        \* the environment
    cfg,        \* the configuration Load returned
    opened,     \* the clients that are open
    signaled,   \* SIGINT or SIGTERM has arrived
    indexer,    \* the indexer's goroutine: idle, running or returned
    http,       \* the HTTP server
    listener,   \* the goroutine in ListenAndServe
    stopper,    \* the goroutine in Shutdown
    accepted,   \* the server has accepted connections from clients
    requests,   \* HTTP requests in progress
    acquired,   \* how many of them hold a connection of the pool
    timedOut,   \* Shutdown gave up waiting for them
    groupErr    \* the errgroup's error, and main.run's

loadVars == <<file, env, cfg>>
mainVars == <<process, loadVars, opened, signaled>>
requestVars == <<accepted, requests, acquired>>
httpVars == <<http, listener, stopper, requestVars, timedOut>>
serviceVars == <<indexer, httpVars, groupErr>>
vars == <<runnerVars, mainVars, serviceVars>>

-----------------------------------------------------------------------------
\* indexer.Config{}: there is no syncer yet.
noSyncer ==
    [dependencies |-> FALSE, chainID |-> 0, fetcherChainID |-> 0,
     blockWindow |-> 0, rpcConcurrency |-> 0, headMode |-> "",
     pollInterval |-> 0, retryAttempts |-> 0,
     retryMinBackoff |-> 0, retryMaxBackoff |-> 0]

\* NewFetcher and NewSyncer, with the clients just opened.
NewSyncer(c) ==
    [dependencies |-> TRUE, chainID |-> c.chainID,
     fetcherChainID |-> c.chainID, blockWindow |-> c.blockWindow,
     rpcConcurrency |-> c.rpcConcurrency, headMode |-> c.headMode,
     pollInterval |-> c.pollInterval, retryAttempts |-> c.retryAttempts,
     retryMinBackoff |-> c.retryMinBackoff,
     retryMaxBackoff |-> c.retryMaxBackoff]

Init ==
    /\ config = noSyncer
    /\ RunnerIdle
    /\ process = "start"
    /\ file \in Files
    /\ env \in Environments
    /\ cfg = {}
    /\ opened = {}
    /\ signaled = FALSE
    /\ indexer = "idle"
    /\ http = "idle"
    /\ listener = "idle"
    /\ stopper = "idle"
    /\ accepted = FALSE
    /\ requests = 0
    /\ acquired = 0
    /\ timedOut = FALSE
    /\ groupErr = "none"

Started == \E c \in Load(file, env) : c.logLevel \in LogLevels

\* config.Load and NewLogger.
loadConfig ==
    /\ process = "start"
    /\ Started
    /\ process' = "open"
    /\ cfg' = Load(file, env)
    /\ UNCHANGED <<runnerVars, file, env, opened, signaled, serviceVars>>

\* Any step of main.run before runServices may fail, and what was opened is
\* closed.  Loading fails for the file and the environment, the others for
\* what the database and the endpoint answer; OpenPostgres and
\* ValidateChainID call out under the context and do fail once it has ended.
startupFails ==
    /\ process \in {"start", "open", "dial", "validate"}
    /\ process = "start" => ~ Started
    /\ process' = "closing"
    /\ groupErr' = "startup"
    /\ UNCHANGED <<runnerVars, loadVars, opened, signaled, indexer, httpVars>>

openPostgres ==
    /\ process = "open" /\ ~ canceled
    /\ process' = "dial"
    /\ opened' = opened \cup {"database"}
    /\ UNCHANGED <<runnerVars, loadVars, signaled, serviceVars>>

dial ==
    /\ process = "dial"
    /\ process' = "validate"
    /\ opened' = opened \cup {"rpc"}
    /\ UNCHANGED <<runnerVars, loadVars, signaled, serviceVars>>

\* ValidateChainID succeeds; runServices starts the three goroutines.
runServices ==
    /\ process = "validate" /\ ~ canceled
    /\ process' = "serving"
    /\ \E c \in cfg : config' = NewSyncer(c)
    /\ indexer' = "running"
    /\ http' = "starting"
    /\ listener' = "running"
    /\ stopper' = "running"
    /\ UNCHANGED <<canceled, pc, synced, cycleVars, exit, loadVars, opened,
                   signaled, requestVars, timedOut, groupErr>>

\* Mistakes: the context ends but the error is dropped, and the reverse.
errorDropped(error) ==
    /\ canceled' = (canceled \/ error # "none")
    /\ UNCHANGED groupErr

contextKept(error) ==
    /\ groupErr' = IF groupErr = "none" THEN error ELSE groupErr
    /\ UNCHANGED canceled

\* A goroutine of the errgroup returns: the first error is kept and ends the
\* context.
groupReturn(error) ==
    /\ groupErr' = IF groupErr = "none" THEN error ELSE groupErr
    /\ canceled' = (canceled \/ error # "none")

indexerStep ==
    /\ indexer = "running"
    /\ RunStep
    /\ UNCHANGED <<mainVars, serviceVars>>

\* A mistake: the context's own error is a failure.
runErrorAlways == "indexer"

\* The context's own error is not a failure once the context has ended.
runError == IF canceled /\ exit = "canceled" THEN "none" ELSE "indexer"

\* Run has returned.
indexerReturns ==
    /\ indexer = "running" /\ pc = "exited"
    /\ indexer' = "returned"
    /\ groupReturn(runError)
    /\ UNCHANGED <<indexerVars, mainVars, httpVars>>

listens ==
    /\ http = "starting" /\ listener = "running"
    /\ http' = "listening"
    /\ UNCHANGED <<runnerVars, mainVars, indexer, listener, stopper, requestVars,
                   timedOut, groupErr>>

\* ListenAndServe returns: the address or the listener fails, or Shutdown has
\* closed the server, before it listened included.
listenerReturns ==
    /\ listener = "running"
    /\ listener' = "returned"
    /\ \/ /\ http \in {"starting", "listening"}
          /\ http' = "failed"
          /\ groupReturn("http")
       \/ /\ http = "closed"
          /\ UNCHANGED http
          /\ groupReturn(IF canceled THEN "none" ELSE "http")
    /\ UNCHANGED <<indexerVars, mainVars, indexer, stopper, requestVars, timedOut>>

\* A request comes on a new connection or, until Shutdown has closed those that
\* are idle, on one that was kept alive: a failed listener leaves them open.
requestArrives ==
    /\ \/ http = "listening"
       \/ accepted /\ stopper \in {"running", "draining"}
    /\ requests < MaxRequests
    /\ accepted' = TRUE
    /\ requests' = requests + 1
    /\ UNCHANGED <<runnerVars, mainVars, indexer, http, listener, stopper,
                   acquired, timedOut, groupErr>>

\* A query, or the transaction of one, takes a connection from the pool.  A
\* closed pool refuses: the request is answered with an error, and ends.
acquire ==
    /\ "database" \in opened
    /\ acquired < requests
    /\ acquired' = acquired + 1
    /\ UNCHANGED <<runnerVars, mainVars, indexer, http, listener, stopper,
                   accepted, requests, timedOut, groupErr>>

\* The query has its rows or the transaction ends, also by the request's
\* deadline.
release ==
    /\ acquired > 0
    /\ acquired' = acquired - 1
    /\ UNCHANGED <<runnerVars, mainVars, indexer, http, listener, stopper,
                   accepted, requests, timedOut, groupErr>>

requestEnds ==
    /\ process # "exited"
    /\ requests > acquired
    /\ requests' = requests - 1
    /\ UNCHANGED <<runnerVars, mainVars, indexer, http, listener, stopper,
                   accepted, acquired, timedOut, groupErr>>

\* <-groupCtx.Done(), then Shutdown closes the listeners ...
shutdown ==
    /\ stopper = "running" /\ canceled
    /\ stopper' = "draining"
    /\ http' = IF http = "failed" THEN "failed" ELSE "closed"
    /\ UNCHANGED <<runnerVars, mainVars, indexer, listener, requestVars, timedOut,
                   groupErr>>

\* ... and waits for the requests in progress, until shutdownTimeout.
shutdownReturns ==
    /\ stopper = "draining"
    /\ stopper' = "returned"
    /\ timedOut' = (requests > 0)
    /\ groupReturn(IF requests > 0 THEN "shutdown" ELSE "none")
    /\ UNCHANGED <<indexerVars, mainVars, indexer, http, listener, requestVars>>

\* Mistakes: only the HTTP goroutines are waited for, or not the one in
\* Shutdown, which goes on after ListenAndServe has returned.
httpReturned == listener = "returned" /\ stopper = "returned"

drainNotAwaited == indexer = "returned" /\ listener = "returned"

allReturned ==
    indexer = "returned" /\ listener = "returned" /\ stopper = "returned"

\* group.Wait returns.
wait ==
    /\ process = "serving"
    /\ allReturned
    /\ process' = "closing"
    /\ UNCHANGED <<runnerVars, loadVars, opened, signaled, serviceVars>>

\* The deferred closes, last opened first.
closeClient ==
    /\ process = "closing" /\ "rpc" \in opened
    /\ opened' = opened \ {"rpc"}
    /\ UNCHANGED <<runnerVars, process, loadVars, signaled, serviceVars>>

\* pgxpool's Close refuses every Acquire from now on ...
closeStore ==
    /\ process = "closing" /\ opened = {"database"}
    /\ opened' = {}
    /\ UNCHANGED <<runnerVars, process, loadVars, signaled, serviceVars>>

\* ... and waits for the connections that are in use, not for requests.  Those
\* still in progress when main returns are cut off.
processExits ==
    /\ process = "closing" /\ opened = {} /\ acquired = 0
    /\ process' = "exited"
    /\ UNCHANGED <<runnerVars, loadVars, opened, signaled, serviceVars>>

\* signal.NotifyContext: the context main gave to run ends.
signal ==
    /\ ~ signaled /\ process # "exited"
    /\ signaled' = TRUE
    /\ canceled' = TRUE
    /\ UNCHANGED <<indexerVars, process, loadVars, opened, serviceVars>>

startup == loadConfig \/ startupFails \/ openPostgres \/ dial \/ runServices

IndexerGoroutine == indexerStep \/ indexerReturns

ListenerGoroutine == listens \/ (http = "closed" /\ listenerReturns)

ShutdownGoroutine == shutdown \/ shutdownReturns

closing == wait \/ closeClient \/ closeStore \/ processExits

Next ==
    \/ startup
    \/ IndexerGoroutine
    \/ listens
    \/ listenerReturns
    \/ requestArrives
    \/ acquire
    \/ release
    \/ requestEnds
    \/ ShutdownGoroutine
    \/ closing
    \/ signal

Spec == Init /\ [][Next]_vars

\* Goroutines are scheduled; a closed server's ListenAndServe returns;
\* shutdownTimeout bounds Shutdown.  The timeout middleware ends the context of
\* a request's queries, so a connection comes back, but nothing makes a request
\* end: it may write to a client that does not read.
Fairness ==
    /\ WF_vars(startup)
    /\ WF_vars(IndexerGoroutine)
    /\ WF_vars(ListenerGoroutine)
    /\ WF_vars(release)
    /\ WF_vars(ShutdownGoroutine)
    /\ WF_vars(closing)

FairSpec == Spec /\ Fairness

-----------------------------------------------------------------------------
\* The process ends without an error only because it was told to stop: a
\* service that stops by itself is always an error, so that a supervisor that
\* restarts on failure sees one.
NoSilentStop ==
    process = "exited" /\ groupErr = "none" => signaled

\* The reported error names a service that failed by itself: stopping the
\* others because of it, or because of a signal, is no failure of theirs.
ErrorIsTheCause ==
    /\ groupErr = "indexer" => exit \in {"config", "initial"}
    /\ groupErr = "http" => http = "failed"
    /\ groupErr = "shutdown" => timedOut /\ signaled

\* The indexer uses both clients until Run returns; none is closed before.
ClientsOutliveIndexer ==
    indexer = "running" => opened = {"database", "rpc"}

\* No request is cut off in silence.  Once runServices has returned, so that a
\* request may find the pool closed or end with the process, those still in
\* progress are the ones Shutdown gave up on, and the process reports an error.
RequestsDrainFirst ==
    requests > 0 /\ process # "serving" => timedOut /\ groupErr # "none"

\* No half-dead process: when the indexer or the server stops, for whatever
\* reason, or a signal arrives, the whole process exits.
ServicesStopTogether ==
    (signaled \/ pc = "exited" \/ http = "failed") ~> process = "exited"

\* A configuration Load accepts is one Run accepts: the two validate it
\* separately, and a process that got past its startup checks never stops
\* because of its configuration.
LoadedConfigRuns == exit # "config"
=============================================================================

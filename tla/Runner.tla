-------------------------------- MODULE Runner --------------------------------
(***************************************************************************)
(* Syncer.Run: an initial synchronization, then one per poll interval,     *)
(* each with a bounded number of retries under an exponential backoff,     *)
(* until the context ends.                                                 *)
(*                                                                         *)
(* One call of SyncOnce is one step here: it succeeds or fails, for a      *)
(* reason worth retrying or for a permanent one.  Module Syncer has its    *)
(* inside.  Durations are signed integers of the width MaxInt64 gives.     *)
(***************************************************************************)
EXTENDS Config, Powers

CONSTANT MaxInt64   \* the largest time.Duration

ASSUME RunnerAssumption == MaxInt64 \in Nat \ {0}

VARIABLES
    config,     \* the syncer: its Config and what NewSyncer was given
    canceled,   \* the context has ended
    pc,         \* where Run is
    synced,     \* the initial synchronization has succeeded
    retry,      \* the loop counter of syncWithRetry
    backoff,    \* the next wait of syncWithRetry
    waits,      \* the waits of this cycle so far
    failure,    \* the error syncWithRetry returned
    exit        \* the error Run returned

cycleVars == <<retry, backoff, waits, failure>>
indexerVars == <<config, pc, synced, cycleVars, exit>>
runnerVars == <<indexerVars, canceled>>

-----------------------------------------------------------------------------
Duration == (-MaxInt64 - 1)..MaxInt64

\* Config, with the fetcher's chain ID; dependencies is false when the
\* fetcher, the chain reader or the store is nil.
SyncerConfig ==
    [dependencies : BOOLEAN, chainID : Nat, fetcherChainID : Nat,
     blockWindow : Nat, rpcConcurrency : Int, headMode : STRING,
     pollInterval : Duration, retryAttempts : Int,
     retryMinBackoff : Duration, retryMaxBackoff : Duration]

\* A time.Duration wraps around like every int64.
Wrap(d) ==
    LET width == 2 * (MaxInt64 + 1)
    IN  ((d + MaxInt64 + 1) % width) - MaxInt64 - 1

\* A mistake: the doubling is not guarded.
unguardedDoubling(current, maximum) ==
    IF current < maximum THEN Wrap(current * 2) ELSE maximum

nextRetryBackoff(current, maximum) ==
    IF current >= maximum \/ current > Wrap(maximum - current)
    THEN maximum
    ELSE Wrap(current * 2)

validateSyncOnceConfig(c) ==
    /\ c.dependencies
    /\ c.chainID # 0
    /\ c.fetcherChainID = c.chainID
    /\ c.blockWindow # 0 /\ c.blockWindow <= MaxBlockWindow
    /\ c.rpcConcurrency >= 1
    /\ c.headMode \in HeadMode

validateRunConfig(c) ==
    /\ validateSyncOnceConfig(c)
    /\ c.pollInterval > 0
    /\ c.retryAttempts >= 0
    /\ c.retryMinBackoff > 0
    /\ c.retryMaxBackoff > 0
    /\ c.retryMinBackoff <= c.retryMaxBackoff

RunnerIdle ==
    /\ canceled = FALSE
    /\ pc = "start"
    /\ synced = FALSE
    /\ retry = 0
    /\ backoff = 0
    /\ waits = << >>
    /\ failure = "none"
    /\ exit = "none"

RunnerInit == config \in SyncerConfig /\ RunnerIdle

\* Every call SyncOnce makes takes the context: called after it has ended,
\* SyncOnce can only fail.
callSync == pc' = IF canceled THEN "doomed" ELSE "sync"

Exit(cause) == pc' = "exited" /\ exit' = cause

firstBackoff == config.retryMinBackoff

\* The head of syncWithRetry.
beginCycle ==
    /\ callSync
    /\ retry' = 0
    /\ backoff' = firstBackoff
    /\ waits' = << >>
    /\ failure' = "none"

refuseConfig ==
    /\ pc = "start"
    /\ ~ validateRunConfig(config)
    /\ Exit("config")
    /\ UNCHANGED <<config, canceled, synced, cycleVars>>

start ==
    /\ pc = "start"
    /\ validateRunConfig(config)
    /\ beginCycle
    /\ UNCHANGED <<config, canceled, synced, exit>>

syncSucceeds ==
    /\ pc = "sync"
    /\ pc' = "poll"
    /\ synced' = TRUE
    /\ UNCHANGED <<config, canceled, cycleVars, exit>>

\* A mistake: one retry too many.
retriesLeftOneMore == retry <= config.retryAttempts

retriesLeft == retry < config.retryAttempts

\* The end of the context comes first, then a permanent error, then the
\* retry limit.
failureCause(permanent) ==
    IF canceled THEN "canceled"
    ELSE IF permanent THEN "permanent"
    ELSE IF ~ retriesLeft THEN "exhausted"
    ELSE "none"

syncFails(permanent) ==
    /\ pc \in {"sync", "doomed"}
    /\ failure' = failureCause(permanent)
    /\ pc' = IF failure' = "none" THEN "backoff" ELSE "failed"
    /\ UNCHANGED <<config, canceled, synced, retry, backoff, waits, exit>>

\* waitFor's timer fires; it may still win when the context has ended.
backoffElapsed ==
    /\ pc = "backoff"
    /\ waits' = Append(waits, backoff)
    /\ backoff' = nextRetryBackoff(backoff, config.retryMaxBackoff)
    /\ retry' = retry + 1
    /\ callSync
    /\ UNCHANGED <<config, canceled, synced, failure, exit>>

backoffInterrupted ==
    /\ pc = "backoff" /\ canceled
    /\ pc' = "failed"
    /\ failure' = "canceled"
    /\ UNCHANGED <<config, canceled, synced, retry, backoff, waits, exit>>

\* Mistakes: every failed cycle ends Run; the context is looked at during
\* startup only; the first cycle is not told from the others.
everyFailureReturns == Exit(IF canceled THEN "canceled" ELSE "initial")

contextIgnoredLater ==
    IF synced THEN pc' = "poll" /\ UNCHANGED exit ELSE everyFailureReturns

firstFailurePolls ==
    IF canceled THEN Exit("canceled") ELSE pc' = "poll" /\ UNCHANGED exit

\* run, with the error of syncWithRetry: the context is looked at again.
afterFailure ==
    IF canceled THEN Exit("canceled")
    ELSE IF ~ synced THEN Exit("initial")
    ELSE pc' = "poll" /\ UNCHANGED exit

cycleFailed ==
    /\ pc = "failed"
    /\ afterFailure
    /\ UNCHANGED <<config, canceled, synced, cycleVars>>

\* A mistake: the next cycle is scheduled after a success only.
pollAfterSuccess ==
    /\ pc = "poll" /\ failure = "none"
    /\ beginCycle
    /\ UNCHANGED <<config, canceled, synced, exit>>

pollElapsed ==
    /\ pc = "poll"
    /\ beginCycle
    /\ UNCHANGED <<config, canceled, synced, exit>>

pollInterrupted ==
    /\ pc = "poll" /\ canceled
    /\ Exit("canceled")
    /\ UNCHANGED <<config, canceled, synced, cycleVars>>

\* The context ends.
cancel ==
    /\ ~ canceled
    /\ canceled' = TRUE
    /\ UNCHANGED indexerVars

RunStep ==
    \/ refuseConfig
    \/ start
    \/ syncSucceeds
    \/ \E permanent \in BOOLEAN : syncFails(permanent)
    \/ backoffElapsed
    \/ backoffInterrupted
    \/ cycleFailed
    \/ pollElapsed
    \/ pollInterrupted

RunnerNext == RunStep \/ cancel

RunnerSpec == RunnerInit /\ [][RunnerNext]_runnerVars

\* The goroutine is scheduled, timers fire and SyncOnce returns: every call
\* it makes has a timeout or ends with the context.
RunnerFairness == WF_runnerVars(RunStep)

-----------------------------------------------------------------------------
RunnerTypeOK ==
    /\ config \in SyncerConfig
    /\ canceled \in BOOLEAN
    /\ pc \in {"start", "sync", "doomed", "backoff", "failed", "poll",
               "exited"}
    /\ synced \in BOOLEAN
    /\ retry \in Nat
    /\ backoff \in 0..MaxInt64
    /\ waits \in Seq(1..MaxInt64)
    /\ failure \in {"none", "canceled", "permanent", "exhausted"}
    /\ exit \in {"none", "config", "initial", "canceled"}

\* The waits of a cycle double from the configured minimum and stay at the
\* configured maximum once they reach it, whatever the two are: doubling the
\* duration neither overshoots the maximum nor overflows, and a cycle does not
\* inherit the backoff of the one before it.
BackoffSchedule ==
    \A k \in 1..Len(waits) :
        waits[k] = LET doubled == config.retryMinBackoff * Power(2, k - 1)
                   IN  IF doubled <= config.retryMaxBackoff THEN doubled
                       ELSE config.retryMaxBackoff

\* "retries exhausted" is reported after exactly the configured number of
\* retries, and no cycle, the first included, ever makes more.
RetriesExact ==
    /\ Len(waits) <= IF config.retryAttempts > 0 THEN config.retryAttempts
                     ELSE 0
    /\ failure = "exhausted" => Len(waits) = config.retryAttempts

\* Run returns an error of its own only before the first success; from then
\* on only the end of the context stops it, whatever fails.
StopsOnlyWhenCanceled ==
    pc = "exited" =>
        /\ synced => exit = "canceled"
        /\ exit = "canceled" => canceled
        /\ exit = "initial" => failure \in {"permanent", "exhausted"}

\* Every failed cycle is followed by another synchronization attempt, and
\* every success too, unless the context ends.
KeepsPolling ==
    (synced /\ ~ canceled /\ pc # "exited")
        ~> (pc \in {"sync", "doomed"} \/ canceled)

\* Startup does not retry for ever: it succeeds or returns to the caller.
StartupResolves == <>(synced \/ pc = "exited")

\* The end of the context stops Run, wherever it is.
CancelStops == canceled ~> pc = "exited"
=============================================================================

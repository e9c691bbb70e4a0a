---------------------------- MODULE RuntimeProofs ----------------------------
(***************************************************************************)
(* Syncer.Run for every configuration and every width of time.Duration:    *)
(* the retry count, the backoff schedule and the reasons Run may return.   *)
(* Then the process around it, for every configuration file and            *)
(* environment, every interleaving of its goroutines and any number of     *)
(* requests.                                                               *)
(***************************************************************************)
EXTENDS Runtime, PowersProofs

-----------------------------------------------------------------------------
(* Syncer.Run *)

\* The exact double, capped.
DoubledUpTo(w, maximum) == IF 2 * w <= maximum THEN 2 * w ELSE maximum

\* The wait before retry n + 1 in unbounded arithmetic.
Scheduled(minimum, maximum, n) ==
    IF minimum * Power(2, n) <= maximum THEN minimum * Power(2, n) ELSE maximum

\* Before Run has accepted its configuration nothing has been tried.
StartInv ==
    /\ pc = "start" \/ exit = "config" =>
          ~ synced /\ waits = << >> /\ failure = "none"
    /\ pc # "start" /\ exit # "config" => validateRunConfig(config)
    /\ exit # "none" => pc = "exited"

\* What the retry counter, the waits and the reported failure have to do
\* with each other.
CycleInv ==
    /\ retry = Len(waits)
    /\ validateRunConfig(config) => retry <= config.retryAttempts
    /\ pc = "backoff" => retry < config.retryAttempts
    /\ failure = "exhausted" => retry = config.retryAttempts
    /\ pc = "failed" =>
          failure # "none" /\ (failure = "canceled" => canceled)

\* The next wait follows from the number of waits before it.
BackoffInv ==
    /\ BackoffSchedule
    /\ pc # "start" /\ exit # "config" =>
          /\ backoff \in config.retryMinBackoff .. config.retryMaxBackoff
          /\ backoff = Scheduled(config.retryMinBackoff,
                                 config.retryMaxBackoff, Len(waits))

RunnerInv ==
    /\ RunnerTypeOK
    /\ StartInv
    /\ CycleInv
    /\ BackoffInv
    /\ StopsOnlyWhenCanceled

-----------------------------------------------------------------------------
\* A duration that fits does not wrap.
LEMMA WrapFits == ASSUME NEW d \in Duration PROVE Wrap(d) = d
<1> DEFINE a == d + MaxInt64 + 1
           n == 2 * (MaxInt64 + 1)
<1>1. a \in 0..(n - 1) /\ n \in Nat \ {0}
  BY RunnerAssumption DEF Duration
<1>2. ASSUME NEW i \in Int, NEW m \in Nat \ {0}, i \in 0..(m - 1)
      PROVE  i % m = i
  BY <1>2
<1>3. a % n = a
  BY <1>1, <1>2
<1> QED BY <1>3, RunnerAssumption DEF Wrap, Duration

\* nextRetryBackoff neither overflows nor overshoots.
LEMMA NextBackoff ==
    ASSUME NEW maximum \in 1..MaxInt64, NEW current \in 1..maximum
    PROVE  nextRetryBackoff(current, maximum) = DoubledUpTo(current, maximum)
<1>1. MaxInt64 \in Nat
  BY RunnerAssumption, Zenon
<1>2. maximum - current \in Duration
  BY <1>1 DEF Duration
<1>3. Wrap(maximum - current) = maximum - current
  BY <1>2, WrapFits, Zenon
<1>4. CASE current >= maximum \/ current > maximum - current
  BY <1>1, <1>3, <1>4 DEF nextRetryBackoff, DoubledUpTo
<1>5. CASE ~ (current >= maximum \/ current > maximum - current)
  <2>1. current * 2 \in Duration /\ current * 2 <= maximum
    BY <1>1, <1>5 DEF Duration
  <2>2. Wrap(current * 2) = current * 2
    BY <2>1, WrapFits, Zenon
  <2> QED BY <1>1, <1>3, <1>5, <2>1, <2>2 DEF nextRetryBackoff, DoubledUpTo
<1> QED BY <1>4, <1>5, Zenon

\* The schedule begins with the minimum and goes on with the capped double.
LEMMA ScheduleDoubles ==
    ASSUME NEW maximum \in Nat \ {0}, NEW minimum \in 1..maximum, NEW n \in Nat
    PROVE  /\ Scheduled(minimum, maximum, 0) = minimum
           /\ Scheduled(minimum, maximum, n + 1)
                = DoubledUpTo(Scheduled(minimum, maximum, n), maximum)
<1> DEFINE d == minimum * Power(2, n)
<1>1. minimum \in Nat /\ Power(2, n) \in Nat
  BY PowerRecursion
<1>2. d \in Nat
  BY <1>1
<1>3. \A a, b \in Nat : a * (2 * b) = 2 * (a * b)
  OBVIOUS
<1>4. minimum * Power(2, n + 1) = 2 * d
  BY <1>1, <1>3, PowerRecursion
<1>5. Scheduled(minimum, maximum, 0) = minimum
  <2>1. Power(2, 0) = 1
    BY PowerRecursion, Zenon
  <2> QED
    BY <2>1 DEF Scheduled
<1>6. /\ Scheduled(minimum, maximum, n) = IF d <= maximum THEN d ELSE maximum
      /\ Scheduled(minimum, maximum, n + 1)
           = IF 2 * d <= maximum THEN 2 * d ELSE maximum
  BY <1>4, Zenon DEF Scheduled
<1> HIDE DEF d
<1>7. Scheduled(minimum, maximum, n + 1)
        = DoubledUpTo(Scheduled(minimum, maximum, n), maximum)
  BY <1>2, <1>6 DEF DoubledUpTo
<1> QED
  BY <1>5, <1>7, Zenon

\* The configured backoffs of an accepted configuration.
LEMMA ConfigRange ==
    ASSUME config \in SyncerConfig, validateRunConfig(config)
    PROVE  /\ config.retryMaxBackoff \in 1..MaxInt64
           /\ config.retryMinBackoff \in 1..config.retryMaxBackoff
           /\ config.retryAttempts \in Nat
<1>1. /\ config.retryMaxBackoff \in Duration
      /\ config.retryMinBackoff \in Duration
      /\ config.retryAttempts \in Int
  BY Zenon DEF SyncerConfig
<1> QED BY <1>1, RunnerAssumption DEF validateRunConfig, Duration

LEMMA RunnerInitInv == RunnerInit => RunnerInv
<1> SUFFICES ASSUME RunnerInit PROVE RunnerInv
  OBVIOUS
<1> USE RunnerAssumption DEF RunnerInit, RunnerIdle
<1>0. << >> \in Seq(1..MaxInt64) /\ 0 \in 0..MaxInt64
  OBVIOUS
<1>1. RunnerTypeOK
  BY <1>0, Zenon DEF RunnerTypeOK
<1>2. validateRunConfig(config) => 0 <= config.retryAttempts
  BY ConfigRange
<1>3. StartInv /\ CycleInv /\ BackoffInv /\ StopsOnlyWhenCanceled
  BY <1>2
  DEF StartInv, CycleInv, BackoffInv, BackoffSchedule, StopsOnlyWhenCanceled
<1> QED BY <1>1, <1>3, Zenon DEF RunnerInv

\* Both places a cycle begins.
LEMMA BeginCycleInv ==
    ASSUME RunnerInv, beginCycle, validateRunConfig(config), exit = "none",
           UNCHANGED <<config, canceled, synced, exit>>
    PROVE  RunnerInv'
<1>1. /\ config.retryMaxBackoff \in 1..MaxInt64
      /\ config.retryMinBackoff \in 1..config.retryMaxBackoff
      /\ config.retryAttempts \in Nat
  BY ConfigRange, Zenon DEF RunnerInv, RunnerTypeOK
<1>2. (validateRunConfig(config))'
  BY Zenon DEF validateRunConfig, validateSyncOnceConfig
<1> USE <1>1, <1>2, RunnerAssumption DEF RunnerInv, beginCycle, callSync,
    firstBackoff
<1>3. RunnerTypeOK'
  BY DEF RunnerTypeOK
<1>4. StartInv' /\ CycleInv' /\ StopsOnlyWhenCanceled'
  BY DEF RunnerTypeOK, StartInv, CycleInv, StopsOnlyWhenCanceled
<1>5. BackoffInv'
  <2>1. Scheduled(config.retryMinBackoff, config.retryMaxBackoff, 0)
          = config.retryMinBackoff
    BY ScheduleDoubles
  <2>2. BackoffSchedule'
    BY DEF BackoffSchedule
  <2> QED
    BY <2>1, <2>2 DEF BackoffInv
<1> QED BY <1>3, <1>4, <1>5, Zenon

LEMMA RunStepInv == RunnerInv /\ RunStep => RunnerInv'
<1> SUFFICES ASSUME RunnerInv, RunStep PROVE RunnerInv'
  OBVIOUS
<1> USE RunnerAssumption DEF RunnerInv
<1>0. ASSUME config' = config
      PROVE  validateRunConfig(config)' = validateRunConfig(config)
  BY <1>0, Zenon DEF validateRunConfig, validateSyncOnceConfig
<1>1. CASE refuseConfig
  BY <1>0, <1>1, Zenon DEF refuseConfig, Exit, cycleVars, RunnerTypeOK, StartInv,
    CycleInv, BackoffInv, BackoffSchedule, StopsOnlyWhenCanceled
<1>2. CASE start
  BY <1>2, BeginCycleInv, Zenon DEF start, StartInv
<1>3. CASE pollElapsed
  BY <1>3, BeginCycleInv, Zenon DEF pollElapsed, StartInv
<1>4. CASE syncSucceeds
  BY <1>0, <1>4, Zenon DEF syncSucceeds, cycleVars, RunnerTypeOK, StartInv,
    CycleInv, BackoffInv, BackoffSchedule, StopsOnlyWhenCanceled
<1>5. ASSUME NEW permanent \in BOOLEAN, syncFails(permanent) PROVE RunnerInv'
  <2>1. validateRunConfig(config) /\ exit = "none"
    BY <1>5, Zenon DEF syncFails, StartInv
  <2>2. config.retryAttempts \in Nat /\ retry \in Nat
    BY <2>1, ConfigRange, Zenon DEF RunnerTypeOK
  <2> QED
    BY <1>0, <1>5, <2>1, <2>2 DEF syncFails, failureCause, retriesLeft,
      RunnerTypeOK, StartInv, CycleInv, BackoffInv, BackoffSchedule,
      StopsOnlyWhenCanceled
<1>6. CASE backoffElapsed
  <2> USE <1>6 DEF backoffElapsed
  <2>1. validateRunConfig(config) /\ exit = "none" /\ config' = config
    BY Zenon DEF StartInv
  <2> DEFINE min == config.retryMinBackoff
             max == config.retryMaxBackoff
  <2>2. max \in 1..MaxInt64 /\ min \in 1..max /\ config.retryAttempts \in Nat
    BY <2>1, ConfigRange, Zenon DEF RunnerTypeOK
  <2>3. backoff \in min..max /\ backoff \in 1..max
    BY <2>1, <2>2 DEF BackoffInv
  <2>4. backoff' = DoubledUpTo(backoff, max)
    BY <2>2, <2>3, NextBackoff, Zenon
  <2>5. backoff' \in min..max
    BY <2>2, <2>3, <2>4 DEF DoubledUpTo
  <2>6. waits \in Seq(1..MaxInt64) /\ backoff \in 1..MaxInt64
    BY <2>2, <2>3 DEF RunnerTypeOK
  <2>7. /\ waits' \in Seq(1..MaxInt64)
        /\ Len(waits') = Len(waits) + 1
        /\ waits'[Len(waits) + 1] = backoff
        /\ \A k \in 1..Len(waits) : waits'[k] = waits[k]
    BY <2>6
  <2>8. RunnerTypeOK'
    BY <2>2, <2>5, <2>7 DEF RunnerTypeOK, callSync
  <2>9. StartInv' /\ CycleInv' /\ StopsOnlyWhenCanceled'
    BY <1>0, <2>1, <2>2, <2>6, <2>7
    DEF RunnerTypeOK, callSync, StartInv, CycleInv, StopsOnlyWhenCanceled
  <2>10. Len(waits) \in Nat /\ backoff = Scheduled(min, max, Len(waits))
    BY <2>1, <2>6 DEF BackoffInv
  <2>11. BackoffSchedule'
    <3>1. ASSUME NEW k \in 1..Len(waits')
          PROVE  waits'[k] = Scheduled(min, max, k - 1)
      <4>1. CASE k \in 1..Len(waits)
        BY <2>7, <4>1, Zenon DEF BackoffInv, BackoffSchedule, Scheduled
      <4>2. CASE k = Len(waits) + 1
        <5>1. k - 1 = Len(waits)
          BY <2>10, <4>2
        <5> QED
          BY <2>7, <2>10, <4>2, <5>1, Zenon
      <4> QED
        BY <2>7, <2>10, <4>1, <4>2
    <3>2. \A k \in 1..Len(waits') :
            waits'[k] = Scheduled(config'.retryMinBackoff,
                                  config'.retryMaxBackoff, k - 1)
      BY <2>1, <3>1, Zenon
    <3> QED
      BY <3>2, Zenon DEF BackoffSchedule, Scheduled
  <2>12. backoff' = Scheduled(min, max, Len(waits'))
    <3>1. max \in Nat \ {0} /\ min \in 1..max
      BY <2>2
    <3>2. Scheduled(min, max, Len(waits) + 1) = DoubledUpTo(backoff, max)
      BY <2>10, <3>1, ScheduleDoubles, Zenon
    <3> QED
      BY <2>4, <2>7, <3>2, Zenon
  <2>13. BackoffInv'
    BY <2>1, <2>5, <2>11, <2>12, Zenon DEF BackoffInv
  <2> QED BY <2>8, <2>9, <2>13, Zenon
<1>7. CASE backoffInterrupted
  BY <1>0, <1>7, Zenon DEF backoffInterrupted, RunnerTypeOK, StartInv, CycleInv,
    BackoffInv, BackoffSchedule, StopsOnlyWhenCanceled
<1>8. CASE cycleFailed
  BY <1>0, <1>8, Zenon DEF cycleFailed, afterFailure, Exit, cycleVars, RunnerTypeOK,
    StartInv, CycleInv, BackoffInv, BackoffSchedule, StopsOnlyWhenCanceled
<1>9. CASE pollInterrupted
  BY <1>0, <1>9, Zenon DEF pollInterrupted, Exit, cycleVars, RunnerTypeOK, StartInv,
    CycleInv, BackoffInv, BackoffSchedule, StopsOnlyWhenCanceled
<1> QED BY <1>1, <1>2, <1>3, <1>4, <1>5, <1>6, <1>7, <1>8, <1>9, Zenon DEF RunStep

\* The end of the context, and nothing at all.
LEMMA CancelInv ==
    ASSUME RunnerInv, UNCHANGED indexerVars, canceled' \in BOOLEAN,
           canceled => canceled'
    PROVE  RunnerInv'
BY DEF indexerVars, cycleVars, RunnerInv, RunnerTypeOK, StartInv, CycleInv,
       BackoffInv, BackoffSchedule, StopsOnlyWhenCanceled, validateRunConfig,
       validateSyncOnceConfig

LEMMA RunnerInvariance == RunnerSpec => []RunnerInv
<1>1. RunnerInv /\ [RunnerNext]_runnerVars => RunnerInv'
  <2> SUFFICES ASSUME RunnerInv, [RunnerNext]_runnerVars PROVE RunnerInv'
    OBVIOUS
  <2>1. CASE RunStep
    BY <2>1, RunStepInv, Zenon
  <2>2. CASE cancel \/ UNCHANGED runnerVars
    BY <2>2, CancelInv, Zenon DEF cancel, runnerVars, RunnerInv, RunnerTypeOK
  <2> QED BY <2>1, <2>2, Zenon DEF RunnerNext
<1> QED BY <1>1, RunnerInitInv, PTL DEF RunnerSpec

-----------------------------------------------------------------------------
\* Whatever fails and whatever the configuration, Run returns an error of its
\* own only before the first success, and a context error only once the
\* context has ended.
THEOREM RunStopsOnlyWhenCanceled == RunnerSpec => []StopsOnlyWhenCanceled
<1>1. RunnerInv => StopsOnlyWhenCanceled
  BY Zenon DEF RunnerInv
<1> QED BY <1>1, RunnerInvariance, PTL

\* No cycle retries more often than configured, and "retries exhausted" is
\* reported after exactly that many, for every configuration.
THEOREM RetryCountCorrect == RunnerSpec => []RetriesExact
<1>1. RunnerInv => RetriesExact
  <2> SUFFICES ASSUME RunnerInv PROVE RetriesExact
    OBVIOUS
  <2> USE DEF RunnerInv
  <2>1. CASE pc = "start" \/ exit = "config"
    <3>1. Len(waits) = 0 /\ failure = "none"
      BY <2>1, Zenon DEF StartInv
    <3>2. config.retryAttempts \in Int
      BY Zenon DEF RunnerTypeOK, SyncerConfig
    <3> QED BY <3>1, <3>2 DEF RetriesExact
  <2>2. CASE pc # "start" /\ exit # "config"
    <3>1. validateRunConfig(config)
      BY <2>2, Zenon DEF StartInv
    <3>2. config.retryAttempts \in Nat
      BY <3>1, ConfigRange, Zenon DEF RunnerTypeOK
    <3> QED BY <3>1, <3>2 DEF CycleInv, RunnerTypeOK, RetriesExact
  <2> QED BY <2>1, <2>2, Zenon
<1> QED BY <1>1, RunnerInvariance, PTL

\* The waits of every cycle are the powers of two times the minimum, capped
\* by the maximum, for every width of time.Duration: nextRetryBackoff never
\* overflows, and no cycle inherits the backoff of the one before.
THEOREM BackoffCorrect == RunnerSpec => []BackoffSchedule
<1>1. RunnerInv => BackoffSchedule
  BY Zenon DEF RunnerInv, BackoffInv
<1> QED BY <1>1, RunnerInvariance, PTL

-----------------------------------------------------------------------------
(* The process *)

\* What Run's own steps keep: it exits with a reason, with the context's
\* error only once the context has ended, and never for its configuration
\* when that passes validateRunConfig.
RunInv ==
    /\ canceled \in BOOLEAN
    /\ exit \in {"none", "config", "initial", "canceled"}
    /\ pc = "exited" => exit # "none"
    /\ exit = "canceled" => canceled
    /\ exit # "config"

\* Where main.run and the goroutines are in relation to each other.
StageInv ==
    /\ process \in {"start", "open", "dial", "validate"} =>
          indexer = "idle" /\ stopper = "idle" /\ http = "idle"
    /\ process \in {"start", "open", "dial", "validate", "serving", "closing",
                   "exited"}
    /\ process = "dial" => opened = {"database"}
    /\ process \in {"start", "open"} => opened = {}
    /\ process = "validate" => opened = {"database", "rpc"}
    /\ process = "serving" =>
          opened = {"database", "rpc"} /\ indexer # "idle" /\ stopper # "idle"
    /\ process \in {"closing", "exited"} =>
          /\ indexer # "running"
          /\ \/ groupErr # "none" /\ stopper = "idle"
             \/ stopper = "returned"
    /\ http \in {"starting", "listening"} =>
          process = "serving" /\ listener = "running"
    /\ listener = "running" => http # "idle"

\* Requests reach a server that is being served or drained; what is left when
\* Shutdown returns is what it gave up on, and there are no new ones.
DrainInv ==
    /\ requests \in Nat /\ acquired \in 0..requests
    /\ requests > 0 \/ accepted => stopper # "idle"
    /\ http \in {"starting", "listening"} => stopper = "running"
    /\ stopper \in {"draining", "returned"} => http \in {"closed", "failed"}
    /\ stopper = "returned" /\ requests > 0 => timedOut /\ groupErr # "none"

\* The context ends for a reason, and the server is closed for that one.
CauseInv ==
    /\ canceled => signaled \/ groupErr # "none"
    /\ groupErr = "indexer" => indexer = "returned"
    /\ groupErr = "shutdown" => stopper = "returned"
    /\ stopper \in {"draining", "returned"} \/ http = "closed" => canceled
    /\ http \in {"idle", "starting", "listening", "closed", "failed"}
    /\ stopper \in {"idle", "running", "draining", "returned"}

\* The configuration in use passed Validate.
ConfigInv ==
    /\ \A c \in cfg : Validate(c)
    /\ indexer # "idle" => validateRunConfig(config)

Inv ==
    RunInv /\ StageInv /\ DrainInv /\ CauseInv /\ ConfigInv /\ ErrorIsTheCause

-----------------------------------------------------------------------------
LEMMA InitInv == Init => Inv
<1> SUFFICES ASSUME Init PROVE Inv
  OBVIOUS
<1> USE DEF Init, RunnerIdle
<1>1. RunInv
  BY Zenon DEF RunInv
<1>2. StageInv /\ DrainInv
  BY DEF StageInv, DrainInv
<1>3. CauseInv /\ ErrorIsTheCause
  BY Zenon DEF CauseInv, ErrorIsTheCause
<1>4. ConfigInv
  BY Zenon DEF ConfigInv
<1> QED BY <1>1, <1>2, <1>3, <1>4, Zenon DEF Inv

\* What Load accepts, NewSyncer turns into what Run accepts.
LEMMA ValidIsValid ==
    ASSUME NEW c, Validate(c) PROVE validateRunConfig(NewSyncer(c))
<1> DEFINE n == NewSyncer(c)
<1>1. /\ n.dependencies
      /\ n.chainID = c.chainID
      /\ n.fetcherChainID = c.chainID
      /\ n.blockWindow = c.blockWindow
      /\ n.rpcConcurrency = c.rpcConcurrency
      /\ n.headMode = c.headMode
      /\ n.pollInterval = c.pollInterval
      /\ n.retryAttempts = c.retryAttempts
      /\ n.retryMinBackoff = c.retryMinBackoff
      /\ n.retryMaxBackoff = c.retryMaxBackoff
  BY Zenon DEF NewSyncer
<1> HIDE DEF n
<1>2. validateSyncOnceConfig(n)
  <2>0. n.chainID = 1 /\ n.fetcherChainID = n.chainID
    BY <1>1, Zenon DEF Validate
  <2>1. n.chainID # 0 /\ n.fetcherChainID = n.chainID
    BY <2>0
  <2>2. n.blockWindow # 0 /\ n.blockWindow <= MaxBlockWindow
    BY <1>1, Zenon DEF Validate
  <2>3. n.rpcConcurrency >= 1 /\ n.headMode \in HeadMode
    BY <1>1, Zenon DEF Validate
  <2> QED BY <1>1, <2>1, <2>2, <2>3, Zenon DEF validateSyncOnceConfig
<1>3. validateRunConfig(n)
  BY <1>1, <1>2, Zenon
  DEF Validate, positiveDurations, backoffOrdered, validateRunConfig
<1> QED BY <1>3, Zenon DEF n

LEMMA LoadValid == \A c \in Load(file, env) : Validate(c)
BY Zenon DEF Load

\* Run's steps leave the context and the configuration alone and exit with a
\* reason that holds.
LEMMA RunStepKeeps ==
    ASSUME RunInv, RunStep, validateRunConfig(config)
    PROVE  RunInv' /\ config' = config /\ canceled' = canceled
BY Zenon DEF RunInv, RunStep, refuseConfig, start, syncSucceeds, syncFails,
       backoffElapsed, backoffInterrupted, cycleFailed, pollElapsed,
       pollInterrupted, afterFailure, Exit, beginCycle, callSync

\* Steps that leave the configuration alone.
LEMMA SameConfig ==
    ASSUME ConfigInv, UNCHANGED <<config, cfg>>,
           indexer' # "idle" => indexer # "idle"
    PROVE  ConfigInv'
BY Zenon DEF ConfigInv, validateRunConfig, validateSyncOnceConfig

LEMMA StartupInv == ASSUME Inv, startup PROVE Inv'
<1> USE DEF Inv, requestVars, httpVars, serviceVars, loadVars, runnerVars, indexerVars,
        cycleVars
<1>1. CASE loadConfig
  <2> USE <1>1 DEF loadConfig
  <2>1. ConfigInv'
    BY LoadValid, Zenon
    DEF ConfigInv, validateRunConfig, validateSyncOnceConfig, StageInv
  <2> QED BY <2>1, Zenon DEF RunInv, StageInv, DrainInv, CauseInv, ErrorIsTheCause
<1>2. CASE startupFails
  BY <1>2, SameConfig, Zenon
  DEF startupFails, RunInv, StageInv, DrainInv, CauseInv, ErrorIsTheCause
<1>3. CASE openPostgres
  BY <1>3, SameConfig, Zenon
  DEF openPostgres, RunInv, StageInv, DrainInv, CauseInv, ErrorIsTheCause
<1>4. CASE dial
  BY <1>4, SameConfig, Zenon DEF dial, RunInv, StageInv, DrainInv, CauseInv, ErrorIsTheCause
<1>5. CASE runServices
  <2> USE <1>5 DEF runServices
  <2>1. PICK c \in cfg : config' = NewSyncer(c)
    OBVIOUS
  <2>2. validateRunConfig(NewSyncer(c))
    BY ValidIsValid, Zenon DEF ConfigInv
  <2>3. ConfigInv'
    BY <2>1, <2>2, Zenon DEF ConfigInv, validateRunConfig, validateSyncOnceConfig
  <2> QED BY <2>3, Zenon DEF RunInv, StageInv, DrainInv, CauseInv, ErrorIsTheCause
<1> QED BY <1>1, <1>2, <1>3, <1>4, <1>5, Zenon DEF startup

LEMMA StepInv == Inv /\ [Next]_vars => Inv'
<1> SUFFICES ASSUME Inv, [Next]_vars PROVE Inv'
  OBVIOUS
<1> USE SameConfig DEF Inv, mainVars, requestVars, httpVars, serviceVars, loadVars,
        runnerVars, indexerVars, cycleVars
<1>1. CASE startup
  BY <1>1, StartupInv, Zenon
<1>2. CASE indexerStep
  <2> USE <1>2 DEF indexerStep
  <2>1. RunInv' /\ config' = config /\ canceled' = canceled
    BY RunStepKeeps, Zenon DEF ConfigInv
  <2> QED BY <2>1, Zenon DEF StageInv, DrainInv, CauseInv, ErrorIsTheCause
<1>3. CASE indexerReturns
  BY <1>3 DEF indexerReturns, groupReturn, runError, RunInv, StageInv,
    DrainInv, CauseInv, ErrorIsTheCause
<1>4. CASE listens
  BY <1>4, Zenon DEF listens, RunInv, StageInv, DrainInv, CauseInv, ErrorIsTheCause
<1>5. CASE listenerReturns
  <2>1. CASE http = "closed"
    <3>1. canceled /\ canceled' /\ UNCHANGED <<http, groupErr>>
      BY <1>5, <2>1, Zenon DEF listenerReturns, groupReturn, CauseInv
    <3> QED BY <1>5, <2>1, <3>1
      DEF listenerReturns, RunInv, StageInv, DrainInv, CauseInv, ErrorIsTheCause
  <2>2. CASE http # "closed"
    <3>1. /\ http \in {"starting", "listening"} /\ http' = "failed"
          /\ canceled'
          /\ groupErr' = IF groupErr = "none" THEN "http" ELSE groupErr
      BY <1>5, <2>2, Zenon DEF listenerReturns, groupReturn
    <3> QED BY <1>5, <3>1, Zenon
      DEF listenerReturns, RunInv, StageInv, DrainInv, CauseInv, ErrorIsTheCause
  <2> QED BY <2>1, <2>2, Zenon
<1>6. CASE requestArrives \/ acquire \/ release \/ requestEnds
  <2>1. /\ UNCHANGED <<runnerVars, mainVars, indexer, http, listener, stopper,
                       timedOut, groupErr>>
        /\ accepted' # accepted => requestArrives
    BY <1>6, Zenon DEF requestArrives, acquire, release, requestEnds
  <2>2. RunInv' /\ StageInv' /\ CauseInv' /\ ErrorIsTheCause' /\ ConfigInv'
    <3>1. RunInv' /\ CauseInv' /\ ErrorIsTheCause'
      BY <2>1 DEF RunInv, CauseInv, ErrorIsTheCause
    <3>2. StageInv'
      BY <2>1 DEF StageInv
    <3>3. ConfigInv'
      BY <2>1, Zenon
    <3> QED BY <3>1, <3>2, <3>3, Zenon
  <2>3. requests' \in Nat /\ acquired' \in 0..requests'
    BY <1>6 DEF requestArrives, acquire, release, requestEnds, DrainInv
  <2>4. requests' > 0 => requests > 0 \/ requestArrives
    BY <1>6 DEF acquire, release, requestEnds, DrainInv
  <2>5. requestArrives => stopper \in {"running", "draining"}
    BY Zenon DEF requestArrives, DrainInv
  <2>6. DrainInv'
    BY <2>1, <2>3, <2>4, <2>5 DEF DrainInv
  <2> QED BY <2>2, <2>6, Zenon
<1>7. CASE shutdown
  BY <1>7, Zenon DEF shutdown, RunInv, StageInv, DrainInv, CauseInv, ErrorIsTheCause
<1>8. CASE shutdownReturns
  <2>1. /\ canceled /\ canceled'
        /\ groupErr' = IF groupErr = "none" /\ requests > 0 THEN "shutdown"
                       ELSE groupErr
    BY <1>8, Zenon DEF shutdownReturns, groupReturn, CauseInv
  <2>2. timedOut' = (requests > 0)
    BY <1>8, Zenon DEF shutdownReturns
  <2>3. groupErr = "shutdown" => timedOut'
    BY <1>8, <2>2, Zenon DEF shutdownReturns, ErrorIsTheCause, CauseInv
  <2>4. ErrorIsTheCause'
    BY <1>8, <2>1, <2>2, <2>3, Zenon DEF shutdownReturns, ErrorIsTheCause, CauseInv
  <2> QED BY <1>8, <2>1, <2>4
    DEF shutdownReturns, RunInv, StageInv, DrainInv, CauseInv
<1>9. CASE wait
  BY <1>9, Zenon DEF wait, allReturned, RunInv, StageInv, DrainInv, CauseInv, ErrorIsTheCause
<1>10. CASE closeClient \/ closeStore \/ processExits
  BY <1>10, SMTT(30) DEF closeClient, closeStore, processExits, RunInv, StageInv,
    DrainInv, CauseInv, ErrorIsTheCause
<1>11. CASE signal
  BY <1>11 DEF signal, RunInv, StageInv, DrainInv, CauseInv, ErrorIsTheCause
<1>12. CASE UNCHANGED vars
  BY <1>12 DEF vars, RunInv, StageInv, DrainInv, CauseInv, ErrorIsTheCause
<1> QED
  BY <1>1, <1>2, <1>3, <1>4, <1>5, <1>6, <1>7, <1>8, <1>9, <1>10, <1>11, <1>12, Zenon
  DEF Next, IndexerGoroutine, ShutdownGoroutine, closing

LEMMA Invariance == Spec => []Inv
BY InitInv, StepInv, PTL DEF Spec

-----------------------------------------------------------------------------
\* main.run returns no error only when a signal told the process to stop,
\* whatever the files, the services and the requests do.
THEOREM NeverStopsSilently == Spec => []NoSilentStop
<1>1. Inv => NoSilentStop
  BY Zenon DEF Inv, StageInv, CauseInv, NoSilentStop
<1> QED BY <1>1, Invariance, PTL

\* The error main.run returns names a service that failed by itself.
THEOREM ReportedErrorIsTheCause == Spec => []ErrorIsTheCause
<1>1. Inv => ErrorIsTheCause
  BY Zenon DEF Inv
<1> QED BY <1>1, Invariance, PTL

\* The deferred closes come after the indexer's last use of the clients.
THEOREM ClientsStayOpen == Spec => []ClientsOutliveIndexer
<1>1. Inv => ClientsOutliveIndexer
  <2> SUFFICES ASSUME Inv, indexer = "running" PROVE process = "serving"
    BY Zenon DEF Inv, StageInv, ClientsOutliveIndexer
  <2> QED BY Zenon DEF Inv, StageInv
<1> QED BY <1>1, Invariance, PTL

\* Whatever the clients do and however many there are, a request that is in
\* progress after runServices returned is one Shutdown gave up on, and main.run
\* returns an error.
THEOREM RequestsAreDrained == Spec => []RequestsDrainFirst
<1>1. Inv => RequestsDrainFirst
  BY Zenon DEF Inv, StageInv, DrainInv, RequestsDrainFirst
<1> QED BY <1>1, Invariance, PTL

\* No configuration that Load accepts makes Run stop for its configuration:
\* every file, every environment, every value of every field.
THEOREM LoadedConfigAccepted == Spec => []LoadedConfigRuns
<1>1. Inv => LoadedConfigRuns
  BY Zenon DEF Inv, RunInv, LoadedConfigRuns
<1> QED BY <1>1, Invariance, PTL
=============================================================================

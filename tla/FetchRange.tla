------------------------------ MODULE FetchRange ------------------------------
(***************************************************************************)
(* Fetcher.FetchRange: one producer and a pool of workers that fetch the   *)
(* blocks from..to into an array, over an unbuffered channel.              *)
(*                                                                         *)
(* A worker that fails puts its error into errCh, which has room for one,  *)
(* and then cancels the context its peers and the producer work under.     *)
(* The calls in flight then fail with a cancellation error of their own.   *)
(***************************************************************************)
EXTENDS BlockTree, Sequences

CONSTANTS
    Ranges,         \* the <<from, to>> pairs FetchRange is called with
    Concurrencies   \* the concurrency limits it is called with

ASSUME FetchRangeAssumption ==
    /\ Ranges \subseteq (0..MaxUint64) \X (0..MaxUint64)
    /\ Concurrencies \subseteq Int

VARIABLES
    from, to, concurrency,  \* the arguments
    main,           \* the caller's goroutine: start, waiting or returned
    produced,       \* how many jobs the producer has handed over
    closed,         \* the producer has returned and closed jobs
    worker,         \* where each worker is, idle until it is started
    job,            \* the position each worker is working on
    err,            \* the error each worker met
    errCh,          \* the buffered error channel
    callerCanceled, \* the caller's context is canceled
    workerCanceled, \* a worker, or the return, called cancel()
    bundles,        \* the result array
    result          \* what FetchRange returned

arguments == <<from, to, concurrency>>
producer == <<produced, closed>>
caller == <<main, callerCanceled, result>>
vars == <<arguments, producer, caller, worker, job, err, errCh,
          workerCanceled, bundles>>

-----------------------------------------------------------------------------
\* math.MaxInt, on a 64-bit platform.
MaxInt == MaxUint64 \div 2

blockCount == to - from + 1

\* concurrency < 1 is raised to 1, and never exceeds the number of blocks.
poolSize(limit, count) ==
    LET atLeastOne == IF limit < 1 THEN 1 ELSE limit
    IN  IF atLeastOne > count THEN count ELSE atLeastOne

Worker == 1..poolSize(concurrency, blockCount)

\* workerCtx.Done(): the child context ends with its parent.
Done == callerCanceled \/ workerCanceled

Fetching == {"block", "logs"}

\* A context error, or what a call, a timeout or a validation reports.
ErrorKind == {"canceled", "rpc"}

Init ==
    /\ \E r \in Ranges : from = r[1] /\ to = r[2]
    /\ concurrency \in Concurrencies
    /\ main = "start"
    /\ produced = 0
    /\ closed = FALSE
    /\ worker = [w \in Worker |-> "idle"]
    /\ job = [w \in Worker |-> 0]
    /\ err = [w \in Worker |-> "none"]
    /\ errCh = << >>
    /\ callerCanceled \in BOOLEAN
    /\ workerCanceled = FALSE
    /\ bundles = << >>
    /\ result = "none"

\* The range is empty, or its length does not fit an int.
refuseRange ==
    /\ main = "start"
    /\ from <= to => to - from >= MaxInt
    /\ main' = "returned"
    /\ result' = "invalid"
    /\ UNCHANGED <<arguments, producer, callerCanceled, worker, job, err,
                   errCh, workerCanceled, bundles>>

\* Allocate the array, start the producer and the workers.
start ==
    /\ main = "start"
    /\ from <= to /\ to - from < MaxInt
    /\ main' = "waiting"
    /\ worker' = [w \in Worker |-> "select"]
    /\ bundles' = [k \in 1..blockCount |-> NoBlock]
    /\ UNCHANGED <<arguments, producer, callerCanceled, result, job, err,
                   errCh, workerCanceled>>

\* A mistake: a shared counter without a lock, whose increment can be lost.
advanceRacy == produced' \in {produced, produced + 1}

\* The producer's loop counter.
advance == produced' = produced + 1

\* The producer and a waiting worker meet on the channel.
handOver(w) ==
    /\ main = "waiting" /\ ~ closed /\ produced < blockCount
    /\ worker[w] = "select"
    /\ advance
    /\ job' = [job EXCEPT ![w] = produced + 1]
    /\ worker' = [worker EXCEPT ![w] = "block"]
    /\ UNCHANGED <<arguments, closed, caller, err, errCh, workerCanceled,
                   bundles>>

\* A mistake: the producer sends without selecting on the context.
producerDoneBlind == produced = blockCount

\* The producer has sent every job or sees the context end.
producerDone == produced = blockCount \/ Done

\* The producer returns and closes jobs.
producerReturns ==
    /\ main = "waiting" /\ ~ closed
    /\ producerDone
    /\ closed' = TRUE
    /\ UNCHANGED <<arguments, produced, caller, worker, job, err, errCh,
                   workerCanceled, bundles>>

\* A waiting worker sees the context end or the channel closed.
workerReturns(w) ==
    /\ worker[w] = "select"
    /\ Done \/ closed
    /\ worker' = [worker EXCEPT ![w] = "returned"]
    /\ UNCHANGED <<arguments, producer, caller, job, err, errCh,
                   workerCanceled, bundles>>

\* FetchBlock: BlockByNumber answered with a block of the right number ...
blockReceived(w) ==
    /\ worker[w] = "block"
    /\ worker' = [worker EXCEPT ![w] = "logs"]
    /\ UNCHANGED <<arguments, producer, caller, job, err, errCh,
                   workerCanceled, bundles>>

\* ... and LogsByBlockHash with its logs; the bundle goes into its position.
\* The endpoint may have answered from any branch.
bundleStored(w) ==
    /\ worker[w] = "logs"
    /\ \E b \in Block :
          /\ Number[b] = from + job[w] - 1
          /\ bundles' = [bundles EXCEPT ![job[w]] = b]
    /\ worker' = [worker EXCEPT ![w] = "select"]
    /\ UNCHANGED <<arguments, producer, caller, job, err, errCh,
                   workerCanceled>>

\* Either call fails; with a context error only once the context has ended.
fetchFails(w) ==
    /\ worker[w] \in Fetching
    /\ \E e \in IF Done THEN ErrorKind ELSE {"rpc"} :
          err' = [err EXCEPT ![w] = e]
    /\ worker' = [worker EXCEPT ![w] = "report"]
    /\ UNCHANGED <<arguments, producer, caller, job, errCh, workerCanceled,
                   bundles>>

\* A mistake: the last error is kept instead of the first.
keepLast(e) == errCh' = <<e>>

\* A non-blocking send: the error is dropped when errCh is full.
trySend(e) == errCh' = IF errCh = << >> THEN <<e>> ELSE errCh

reportError(w) ==
    /\ worker[w] = "report"
    /\ trySend(err[w])
    /\ worker' = [worker EXCEPT ![w] = "cancel"]
    /\ UNCHANGED <<arguments, producer, caller, job, err, workerCanceled,
                   bundles>>

cancelPeers(w) ==
    /\ worker[w] = "cancel"
    /\ workerCanceled' = TRUE
    /\ worker' = [worker EXCEPT ![w] = "returned"]
    /\ UNCHANGED <<arguments, producer, caller, job, err, errCh, bundles>>

\* A position nothing was stored in is a zero bundle: number 0.
NumberOf(b) == IF b = NoBlock THEN 0 ELSE Number[b]

validateFetchedBundles(bs) ==
    \A k \in 1..blockCount :
        /\ NumberOf(bs[k]) = from + k - 1
        /\ k > 1 => Parent[bs[k]] = bs[k-1]

checked == IF validateFetchedBundles(bundles) THEN "ok" ELSE "inconsistent"

\* A mistake: errCh is not read.
verdictWithoutErrors == IF callerCanceled THEN "canceled" ELSE checked

\* The first error wins, then the caller's own cancellation, then a broken
\* chain.
verdict == IF errCh # << >> THEN Head(errCh)
           ELSE IF callerCanceled THEN "canceled"
           ELSE checked

\* Both wait groups are down.  The deferred cancel() follows.
return ==
    /\ main = "waiting"
    /\ closed
    /\ \A w \in Worker : worker[w] = "returned"
    /\ main' = "returned"
    /\ result' = verdict
    /\ errCh' = << >>
    /\ workerCanceled' = TRUE
    /\ UNCHANGED <<arguments, producer, callerCanceled, worker, job, err,
                   bundles>>

\* The caller's context ends: shutdown, or a failure elsewhere.
callerCancels ==
    /\ main # "returned" /\ ~ callerCanceled
    /\ callerCanceled' = TRUE
    /\ UNCHANGED <<arguments, producer, main, result, worker, job, err, errCh,
                   workerCanceled, bundles>>

WorkerStep(w) ==
    \/ handOver(w)
    \/ workerReturns(w)
    \/ blockReceived(w)
    \/ bundleStored(w)
    \/ fetchFails(w)
    \/ reportError(w)
    \/ cancelPeers(w)

Next ==
    \/ refuseRange
    \/ start
    \/ producerReturns
    \/ \E w \in Worker : WorkerStep(w)
    \/ return
    \/ callerCancels

Spec == Init /\ [][Next]_vars

\* Goroutines are scheduled, and every call returns: ethereum.Client gives
\* each of them a timeout.
Fairness ==
    /\ WF_vars(refuseRange \/ start)
    /\ WF_vars(producerReturns)
    /\ WF_vars(\E w \in Worker : WorkerStep(w))
    /\ WF_vars(return)

FairSpec == Spec /\ Fairness

-----------------------------------------------------------------------------
TypeOK ==
    /\ <<from, to>> \in Ranges
    /\ concurrency \in Concurrencies
    /\ main \in {"start", "waiting", "returned"}
    /\ produced \in Nat
    /\ closed \in BOOLEAN
    /\ worker \in [Worker -> {"idle", "select", "block", "logs", "report",
                              "cancel", "returned"}]
    /\ job \in [Worker -> Nat]
    /\ err \in [Worker -> ErrorKind \cup {"none"}]
    /\ errCh \in {<< >>} \cup {<<e>> : e \in ErrorKind}
    /\ callerCanceled \in BOOLEAN
    /\ workerCanceled \in BOOLEAN
    /\ bundles \in {<< >>} \cup [1..blockCount -> Block \cup {NoBlock}]
    /\ result \in ErrorKind \cup {"none", "invalid", "ok", "inconsistent"}

\* FetchRange reports the failure itself, never the cancellation the failure
\* caused in other workers: a context error is returned only when the caller's
\* own context ended.
RootCauseReported == result = "canceled" => callerCanceled

\* The workers write the shared array without a lock: no two of them ever
\* hold the same position, and none holds one that is already written.
NoSharedPosition ==
    \A w \in Worker : worker[w] \in Fetching =>
        /\ bundles[job[w]] = NoBlock
        /\ \A v \in Worker \ {w} : worker[v] \in Fetching => job[v] # job[w]

\* The refinement mapping: an array not yet allocated is an unfilled one,
\* and the contract does not tell one error from another.
FilledPositions == IF bundles = << >> THEN [k \in 1..blockCount |-> NoBlock]
                   ELSE bundles

Outcome == IF result \in {"none", "ok"} THEN result ELSE "failed"

Contract == INSTANCE RangeFetch
            WITH filled <- FilledPositions, outcome <- Outcome

\* The producer and its workers do together what a sequential fetch of the
\* range would: every position is written once, with a block of its number;
\* no error is lost, so success means that every position holds a block that
\* extends the one before it; and no goroutine writes after the return.
FillsRange == Contract!Spec

\* FetchRange always returns: neither the producer, blocked on a channel no
\* worker reads, nor a worker, blocked on a channel nobody writes, can hang it.
AlwaysReturns == <>(main = "returned")
=============================================================================

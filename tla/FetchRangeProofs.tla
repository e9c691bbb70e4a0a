--------------------------- MODULE FetchRangeProofs ---------------------------
(***************************************************************************)
(* FetchRange for every range, pool size and block tree: the invariants    *)
(* RootCauseReported and NoSharedPosition, and that the pool implements    *)
(* the sequential contract of RangeFetch.                                  *)
(***************************************************************************)
EXTENDS FetchRange, TLAPS

\* A worker has taken a position and neither filled it nor given it up.
Held(w) == worker[w] \in {"block", "logs", "report"}

\* Where the goroutines are while the caller starts, waits and has returned.
PhaseInv ==
    /\ main = "start" =>
          /\ bundles = << >> /\ produced = 0 /\ ~ closed
          /\ errCh = << >> /\ ~ workerCanceled /\ result = "none"
          /\ \A w \in Worker : worker[w] = "idle"
    /\ main = "waiting" =>
          /\ from <= to /\ result = "none"
          /\ bundles \in [1..blockCount -> Block \cup {NoBlock}]
          /\ produced <= blockCount
          /\ \A w \in Worker : worker[w] # "idle"
    /\ main = "returned" =>
          \A w \in Worker : worker[w] \in {"idle", "returned"}

\* The first error in errCh is never the echo of a cancellation it caused.
ErrorInv ==
    /\ errCh = <<"canceled">> => callerCanceled
    /\ result = "canceled" => callerCanceled
    /\ main = "waiting" /\ workerCanceled => errCh # << >>
    /\ \A w \in Worker :
          /\ worker[w] = "cancel" => errCh # << >>
          /\ worker[w] = "report" =>
                /\ err[w] \in ErrorKind
                /\ err[w] = "canceled" => callerCanceled \/ errCh # << >>

\* Every position handed over is filled, held by one worker, or lost to an
\* error that errCh holds; no other position has been written.
JobInv ==
    /\ \A w \in Worker : Held(w) =>
          /\ job[w] \in 1..produced
          /\ bundles[job[w]] = NoBlock
          /\ \A v \in Worker \ {w} : Held(v) => job[v] # job[w]
    /\ main = "waiting" =>
          /\ closed => produced = blockCount \/ Done
          /\ \A k \in 1..blockCount : k > produced => bundles[k] = NoBlock
          /\ \A k \in 1..produced :
                \/ bundles[k] # NoBlock
                \/ errCh # << >>
                \/ \E w \in Worker : Held(w) /\ job[w] = k

Inv == TypeOK /\ PhaseInv /\ ErrorInv /\ JobInv

-----------------------------------------------------------------------------
LEMMA CountInt == TypeOK => blockCount \in Int /\ from \in Nat /\ to \in Nat
BY FetchRangeAssumption, BlockTreeAssumption DEF TypeOK, blockCount

LEMMA SameArguments ==
    UNCHANGED arguments => blockCount' = blockCount /\ Worker' = Worker
BY DEF arguments, blockCount, Worker, poolSize

LEMMA InitInv == Init => Inv
<1> SUFFICES ASSUME Init PROVE Inv
  OBVIOUS
<1>1. <<from, to>> \in Ranges
  <2>1. PICK r \in Ranges : from = r[1] /\ to = r[2]
    BY DEF Init
  <2> QED BY <2>1, FetchRangeAssumption
<1>2. TypeOK
  BY <1>1 DEF Init, TypeOK
<1> QED BY <1>2 DEF Init, Inv, PhaseInv, ErrorInv, JobInv, Held

LEMMA StepInv == Inv /\ [Next]_vars => Inv'
<1> SUFFICES ASSUME Inv, [Next]_vars PROVE Inv'
  OBVIOUS
<1> USE CountInt, SameArguments DEF Inv
<1>1. CASE refuseRange
  BY <1>1 DEF refuseRange, producer, arguments, TypeOK, PhaseInv, ErrorInv,
              JobInv, Held, Done
<1>2. CASE start
  <2> USE <1>2 DEF start, producer, arguments
  <2>1. bundles' \in [1..blockCount -> Block \cup {NoBlock}]
    OBVIOUS
  <2>2. TypeOK' /\ PhaseInv'
    BY <2>1 DEF TypeOK, PhaseInv, blockCount
  <2>3. ErrorInv' /\ JobInv'
    BY DEF TypeOK, PhaseInv, ErrorInv, JobInv, Held, Done
  <2> QED BY <2>2, <2>3
<1>3. CASE producerReturns
  BY <1>3 DEF producerReturns, producerDone, caller, arguments, TypeOK,
              PhaseInv, ErrorInv, JobInv, Held, Done
<1>4. ASSUME NEW w \in Worker, WorkerStep(w) PROVE Inv'
  <2>1. CASE handOver(w)
    <3> USE <2>1 DEF handOver, advance, caller, arguments
    <3>1. TypeOK' /\ PhaseInv' /\ ErrorInv'
      BY DEF TypeOK, PhaseInv, ErrorInv
    <3>2. /\ main = "waiting" /\ main' = main /\ produced \in Nat
          /\ produced' = produced + 1 /\ produced + 1 \in 1..blockCount
          /\ bundles' = bundles /\ errCh' = errCh /\ ~ closed'
          /\ bundles[produced + 1] = NoBlock
      BY DEF TypeOK, PhaseInv, JobInv
    <3>3. /\ Held(w)' /\ ~ Held(w) /\ job'[w] = produced + 1
          /\ \A v \in Worker \ {w} :
                (Held(v)' <=> Held(v)) /\ job'[v] = job[v]
      BY DEF TypeOK, Held
    <3>4. \A v \in Worker \ {w} : Held(v)' =>
              /\ job'[v] \in 1..produced /\ bundles'[job'[v]] = NoBlock
              /\ \A x \in Worker \ {v} : Held(x) => job'[v] # job[x]
      BY <3>2, <3>3 DEF JobInv
    <3>5. \A v \in Worker : Held(v)' =>
              /\ job'[v] \in 1..produced' /\ bundles'[job'[v]] = NoBlock
              /\ \A x \in Worker \ {v} : Held(x)' => job'[x] # job'[v]
      BY <3>2, <3>3, <3>4
    <3>6. \A k \in 1..produced' : \/ bundles'[k] # NoBlock
                                  \/ errCh' # << >>
                                  \/ \E v \in Worker : Held(v)' /\ job'[v] = k
      <4> SUFFICES ASSUME NEW k \in 1..produced', bundles[k] = NoBlock,
                          errCh = << >>
                   PROVE  \E v \in Worker : Held(v)' /\ job'[v] = k
        BY <3>2
      <4>1. CASE k = produced + 1
        BY <4>1, <3>3
      <4>2. CASE k # produced + 1
        <5>1. k \in 1..produced
          BY <4>2, <3>2
        <5>2. PICK v \in Worker : Held(v) /\ job[v] = k
          BY <5>1, <3>2 DEF JobInv
        <5> QED BY <5>2, <3>3
      <4> QED BY <4>1, <4>2
    <3>7. \A k \in 1..blockCount : k > produced' => bundles'[k] = NoBlock
      BY <3>2 DEF JobInv
    <3>8. JobInv'
      BY <3>2, <3>5, <3>6, <3>7 DEF JobInv
    <3> QED BY <3>1, <3>8
  <2>2. CASE workerReturns(w)
    BY <2>2, Zenon DEF workerReturns, caller, producer, arguments, TypeOK, PhaseInv,
                ErrorInv, JobInv, Held, Done
  <2>3. CASE blockReceived(w)
    BY <2>3 DEF blockReceived, caller, producer, arguments, TypeOK, PhaseInv,
                ErrorInv, JobInv, Held, Done
  <2>4. CASE bundleStored(w)
    <3> USE <2>4 DEF bundleStored, caller, producer, arguments
    <3>0. main = "waiting"
      BY DEF TypeOK, PhaseInv
    <3>1. main = "waiting" /\ job[w] \in 1..blockCount
      BY <3>0 DEF TypeOK, PhaseInv, JobInv, Held
    <3>2. TypeOK' /\ PhaseInv' /\ ErrorInv'
      BY <3>1 DEF TypeOK, PhaseInv, ErrorInv
    <3>3. JobInv'
      BY <3>1, BlockTreeAssumption DEF TypeOK, PhaseInv, JobInv, Held, Done
    <3> QED BY <3>2, <3>3
  <2>5. CASE fetchFails(w)
    <3> USE <2>5 DEF fetchFails, caller, producer, arguments
    <3>1. main = "waiting"
      BY DEF TypeOK, PhaseInv, Fetching
    <3>2. TypeOK' /\ PhaseInv'
      BY <3>1 DEF TypeOK, PhaseInv, ErrorKind
    <3>3. ErrorInv'
      BY <3>1 DEF TypeOK, ErrorInv, ErrorKind, Done
    <3>4. JobInv'
      BY <3>1 DEF TypeOK, JobInv, Held, Fetching, Done
    <3> QED BY <3>2, <3>3, <3>4
  <2>6. CASE reportError(w)
    <3> USE <2>6 DEF reportError, trySend, caller, producer, arguments
    <3>1. TypeOK' /\ PhaseInv'
      BY DEF TypeOK, PhaseInv, ErrorInv, ErrorKind
    <3>2. ErrorInv' /\ errCh' # << >>
      BY DEF TypeOK, ErrorInv, ErrorKind
    <3>3. JobInv'
      BY <3>2 DEF TypeOK, JobInv, Held, Done
    <3> QED BY <3>1, <3>2, <3>3
  <2>7. CASE cancelPeers(w)
    BY <2>7 DEF cancelPeers, caller, producer, arguments, TypeOK, PhaseInv,
                ErrorInv, JobInv, Held, Done
  <2> QED BY <1>4, <2>1, <2>2, <2>3, <2>4, <2>5, <2>6, <2>7 DEF WorkerStep
<1>5. CASE return
  <2> USE <1>5 DEF return, producer, arguments
  <2>1. verdict \in ErrorKind \cup {"ok", "inconsistent"}
        /\ (verdict = "canceled" => callerCanceled)
    BY DEF verdict, checked, TypeOK, ErrorInv, ErrorKind
  <2> QED BY <2>1 DEF TypeOK, PhaseInv, ErrorInv, JobInv, Held
<1>6. CASE callerCancels
  BY <1>6 DEF callerCancels, producer, arguments, TypeOK, PhaseInv, ErrorInv,
              JobInv, Held, Done
<1>7. CASE UNCHANGED vars
  BY <1>7 DEF vars, caller, producer, arguments, TypeOK, PhaseInv, ErrorInv,
              JobInv, Held, Done
<1> QED BY <1>1, <1>2, <1>3, <1>4, <1>5, <1>6, <1>7 DEF Next

LEMMA Invariance == Spec => []Inv
BY InitInv, StepInv, PTL DEF Spec

\* A context error is returned only when the caller's own context ended,
\* whatever the range, the pool and the order in which its workers fail.
THEOREM RootCauseCorrect == Spec => []RootCauseReported
<1>1. Inv => RootCauseReported
  BY DEF Inv, ErrorInv, RootCauseReported
<1> QED BY <1>1, Invariance, PTL

\* The unlocked writes to the result array never meet, for any pool size.
THEOREM PositionsNotShared == Spec => []NoSharedPosition
<1>1. Inv => NoSharedPosition
  BY DEF Inv, JobInv, Held, NoSharedPosition, Fetching
<1> QED BY <1>1, Invariance, PTL

-----------------------------------------------------------------------------
LEMMA InitRefines == Init => Contract!Init
<1> SUFFICES ASSUME Init PROVE Contract!Init
  OBVIOUS
<1>1. TypeOK
  BY InitInv DEF Inv
<1> QED BY <1>1, FetchRangeAssumption
    DEF Init, TypeOK, Contract!Init, Contract!Position, FilledPositions, Outcome,
        blockCount

\* A return with the verdict ok finds every position filled: no error was
\* reported, so no job was given up, and the producer handed all of them over.
LEMMA SuccessIsComplete ==
    ASSUME Inv, return, verdict = "ok" PROVE Contract!Complete
<1> USE DEF Inv
<1>1. errCh = << >> /\ ~ callerCanceled /\ validateFetchedBundles(bundles)
  BY DEF verdict, checked, TypeOK, ErrorKind
<1>2. main = "waiting" /\ closed /\ ~ workerCanceled
  BY <1>1 DEF return, ErrorInv, TypeOK
<1>3. blockCount \in Int /\ blockCount >= 1 /\ produced = blockCount
  BY <1>1, <1>2, CountInt DEF PhaseInv, JobInv, Done, blockCount
<1>4. \A k \in 1..blockCount : bundles[k] # NoBlock
  BY <1>1, <1>2, <1>3 DEF JobInv, Held, return
<1>5. FilledPositions = bundles
  BY <1>2, <1>3 DEF FilledPositions, PhaseInv
<1>6. 1 \in 1..blockCount
  BY <1>3
<1> QED BY <1>1, <1>4, <1>5, <1>6
    DEF Contract!Complete, Contract!Position, blockCount, validateFetchedBundles

LEMMA StepRefines == Inv /\ Inv' /\ [Next]_vars => [Contract!Next]_(Contract!vars)
<1> SUFFICES ASSUME Inv, Inv', [Next]_vars
             PROVE  [Contract!Next]_(Contract!vars)
  OBVIOUS
<1> USE CountInt, SameArguments DEF Inv, arguments, Contract!vars
<1>a. ASSUME UNCHANGED <<arguments, bundles>>
      PROVE  UNCHANGED <<from, to, FilledPositions>>
  BY <1>a DEF FilledPositions
<1>b. ASSUME UNCHANGED <<arguments, bundles, result>>
      PROVE  UNCHANGED <<from, to, FilledPositions, Outcome>>
  BY <1>a, <1>b DEF Outcome
<1>1. CASE refuseRange
  <2>1. Contract!Fail
    BY <1>1, <1>a DEF refuseRange, Contract!Fail, Outcome, PhaseInv
  <2> QED BY <2>1 DEF Contract!Next
<1>2. CASE start
  BY <1>2 DEF start, FilledPositions, Outcome, PhaseInv
<1>3. CASE producerReturns \/ callerCancels
  BY <1>3, <1>b DEF producerReturns, callerCancels, caller
<1>4. ASSUME NEW w \in Worker, WorkerStep(w)
      PROVE  [Contract!Next]_(Contract!vars)
  <2>1. CASE bundleStored(w)
    <3> USE <2>1 DEF bundleStored, caller
    <3>1. main = "waiting"
      BY DEF TypeOK, PhaseInv
    <3>2. job[w] \in 1..blockCount /\ bundles[job[w]] = NoBlock
          /\ result = "none"
      BY <3>1 DEF TypeOK, PhaseInv, JobInv, Held
    <3>3. DOMAIN bundles = 1..blockCount /\ 1 \in 1..blockCount
      BY <3>1, <3>2, SMTT(30) DEF PhaseInv
    <3>4. bundles # << >> /\ bundles' # << >>
      BY <3>3
    <3>5. Contract!Fill(job[w])
      BY <3>2, <3>4 DEF Contract!Fill, FilledPositions, Outcome
    <3>6. job[w] \in Contract!Position
      BY <3>2 DEF Contract!Position, blockCount
    <3> QED BY <3>5, <3>6 DEF Contract!Next
  <2>2. CASE ~ bundleStored(w)
    BY <1>4, <1>b, <2>2
    DEF WorkerStep, handOver, workerReturns, blockReceived, fetchFails,
        reportError, cancelPeers, caller
  <2> QED BY <2>1, <2>2
<1>5. CASE return
  <2>1. result = "none" /\ UNCHANGED <<from, to, FilledPositions>>
    BY <1>5, <1>a DEF return, PhaseInv
  <2>2. CASE verdict = "ok"
    <3>1. Contract!Succeed
      BY <1>5, <2>1, <2>2, SuccessIsComplete
      DEF return, Contract!Succeed, Outcome
    <3> QED BY <3>1 DEF Contract!Next
  <2>3. CASE verdict # "ok"
    <3>1. verdict # "none"
      BY DEF verdict, checked, TypeOK, ErrorKind
    <3>2. Contract!Fail
      BY <1>5, <2>1, <2>3, <3>1 DEF return, Contract!Fail, Outcome
    <3> QED BY <3>2 DEF Contract!Next
  <2> QED BY <2>2, <2>3
<1>6. CASE UNCHANGED vars
  BY <1>6, <1>b DEF vars, caller
<1> QED BY <1>1, <1>2, <1>3, <1>4, <1>5, <1>6 DEF Next

\* The concurrent pool implements the sequential contract: positions written
\* once with a block of their number, success only when all are written and
\* linked, nothing written after the call has ended.
THEOREM ImplementsRangeFetch == Spec => FillsRange
<1>1. Init => Contract!Init
  BY InitRefines
<1>2. Inv /\ Inv' /\ [Next]_vars => [Contract!Next]_(Contract!vars)
  BY StepRefines
<1> QED BY <1>1, <1>2, Invariance, PTL DEF Spec, FillsRange, Contract!Spec
=============================================================================

---------------------------- MODULE RequestPath ----------------------------
(***************************************************************************)
(* The way of a request through the handlers that Watchdog.Start stacks:   *)
(* instrumentation around the concurrency limiter around JWT around the    *)
(* function handler, and the way of a readiness probe, which calls the     *)
(* function handler without any of the three (pkg/watchdog.go lines 81 to  *)
(* 120, metrics/metrics.go, metrics/http.go, pkg/readiness.go).            *)
(*                                                                         *)
(* The limiter is the one of ConcurrencyLimiter, instantiated: every       *)
(* atomic operation of its two counters is a step here too.                *)
(***************************************************************************)
EXTENDS Integers, FiniteSets, Sequences

CONSTANTS
  Requests, Probes, MaxInflight, Modulus, MaxPanics,  \* as in ConcurrencyLimiter
  Configs,      \* the configurations the handlers may be stacked for
  MaxArrivals   \* bound on the number of requests in a behaviour

\* limited: max_inflight > 0.  readyPath: ready_path is not empty.
\* staleLock: an earlier process has left /tmp/.lock behind.
Config == [limited : BOOLEAN, jwtAuth : BOOLEAN, readyPath : BOOLEAN,
           suppressLock : BOOLEAN, staleLock : BOOLEAN]

ASSUME RequestPathAssumption ==
  /\ IsFiniteSet(Requests)
  /\ MaxInflight \in Nat \ {0} /\ MaxPanics \in Nat /\ Modulus \in Nat
  /\ Cardinality(Requests) + MaxPanics < Modulus /\ MaxInflight < Modulus
  /\ Configs \subseteq Config
  /\ MaxArrivals \in Nat

VARIABLES
  cfg,                   \* w.config; chosen at start, never changed
  requestsStarted, requestsCompleted, pc, ticket,  \* the limiter's state
  metPc, metStarted, met, lost, overtaken,
  stage,                 \* where each request is in the stack
  status,                \* the status each request was answered with
  first,                 \* the local firstRequest of each request
  firstRequestRecorded,  \* Http.firstRequestRecorded
  firstSamples,          \* what FirstRequestDurationHistogram observed
  inFlight,              \* Http.InFlight
  requestsTotal,         \* Http.RequestsTotal, over all labels
  mainPc, sigPc,         \* main and the signal goroutine, as in Lifecycle
  acceptingConnections, lockFile,  \* the flag and the file they move
  earlyStop,             \* history: the stop came before main had stored 1
  probeStage, answer,    \* where each probe is, and its last answer
  arrivals, panics, firstLost   \* histories

limiterVars == <<requestsStarted, requestsCompleted, pc, ticket, metPc,
                 metStarted, met, lost, overtaken>>
metricVars == <<firstRequestRecorded, firstSamples, inFlight, requestsTotal>>
requestVars == <<stage, status, first>>
life == <<mainPc, sigPc, acceptingConnections, lockFile, earlyStop>>
probeVars == <<probeStage, answer>>
historyVars == <<arrivals, panics, firstLost>>
vars == <<cfg, limiterVars, metricVars, requestVars, life, probeVars, historyVars>>

Limiter == INSTANCE ConcurrencyLimiter

Init ==
  /\ cfg \in Configs
  /\ Limiter!Init
  /\ stage = [r \in Requests |-> "idle"]
  /\ status = [r \in Requests |-> "none"]
  /\ first = [r \in Requests |-> FALSE]
  /\ firstRequestRecorded = FALSE
  /\ firstSamples = <<>>
  /\ inFlight = 0
  /\ requestsTotal = 0
  /\ mainPc = "lock" /\ sigPc = "select"
  /\ acceptingConnections = 0 /\ lockFile = cfg.staleLock
  /\ earlyStop = FALSE
  /\ probeStage = [p \in Probes |-> "idle"]
  /\ answer = [p \in Probes |-> "none"]
  /\ arrivals = 0
  /\ panics = 0
  /\ firstLost = FALSE

(***************************************************************************)
(* InstrumentHandler, on the way in                                        *)
(***************************************************************************)
\* Mutated form of MarkFirstRequest: a load in place of the compare-and-swap, and
\* a store when the sample is observed.
MarkFirstRequestByLoad(r) ==
  /\ stage[r] = "idle"
  /\ arrivals < MaxArrivals
  /\ arrivals' = arrivals + 1
  /\ first' = [first EXCEPT ![r] = ~firstRequestRecorded]
  /\ firstRequestRecorded' = (firstRequestRecorded \/ firstSamples # <<>>)
  /\ stage' = [stage EXCEPT ![r] = "marked"]
  /\ UNCHANGED <<cfg, limiterVars, firstSamples, inFlight, requestsTotal, status,
                 life, probeVars, panics, firstLost>>

\* TryMarkFirstRequest
MarkFirstRequest(r) ==
  /\ stage[r] = "idle"
  /\ arrivals < MaxArrivals
  /\ arrivals' = arrivals + 1
  /\ first' = [first EXCEPT ![r] = ~firstRequestRecorded]
  /\ firstRequestRecorded' = TRUE
  /\ stage' = [stage EXCEPT ![r] = "marked"]
  /\ UNCHANGED <<cfg, limiterVars, firstSamples, inFlight, requestsTotal, status,
                 life, probeVars, panics, firstLost>>

\* Mutated form of EnterInFlight: the gauge is not raised.
EnterInFlightUncounted(r) ==
  /\ stage[r] = "marked"
  /\ stage' = [stage EXCEPT ![r] = "counted"]
  /\ UNCHANGED <<cfg, limiterVars, metricVars, status, first, life, probeVars,
                 historyVars>>

EnterInFlight(r) ==
  /\ stage[r] = "marked"
  /\ inFlight' = inFlight + 1
  /\ stage' = [stage EXCEPT ![r] = "counted"]
  /\ UNCHANGED <<cfg, limiterVars, firstRequestRecorded, firstSamples, requestsTotal,
                 status, first, life, probeVars, historyVars>>

(***************************************************************************)
(* The limiter, JWT and the function                                       *)
(***************************************************************************)
Advance(r, to) ==
  /\ stage' = [stage EXCEPT ![r] = to]
  /\ UNCHANGED <<cfg, metricVars, status, first, life, probeVars, historyVars>>

\* A request leaves the handler stack and its status is known.
Answer(r, code) ==
  /\ stage' = [stage EXCEPT ![r] = "answered"]
  /\ status' = [status EXCEPT ![r] = code]
  /\ UNCHANGED <<cfg, metricVars, first, life, probeVars, historyVars>>

EnterLimiter(r) ==
  /\ cfg.limited
  /\ stage[r] = "counted"
  /\ Limiter!TakeTicket(r)
  /\ Advance(r, "limiter")

SkipLimiter(r) ==
  /\ ~cfg.limited
  /\ stage[r] = "counted"
  /\ Advance(r, "auth")
  /\ UNCHANGED limiterVars

JudgeRequest(r) ==
  /\ stage[r] = "limiter"
  /\ Limiter!CheckLimit(r)
  /\ Advance(r, IF pc'[r] = "refused" THEN "refused" ELSE "auth")

\* Mutated form of AnswerRefused: the return after writing 429 is missing.
AnswerRefusedFallsThrough(r) ==
  /\ stage[r] = "refused"
  /\ Limiter!Refuse(r)
  /\ Advance(r, "auth")

AnswerRefused(r) ==
  /\ stage[r] = "refused"
  /\ Limiter!Refuse(r)
  /\ Answer(r, "429")

\* The wrapped handler returns to the limiter, if there is one.
ReturnToLimiter(r) ==
  IF cfg.limited THEN Limiter!Complete(r) ELSE UNCHANGED limiterVars

Authorize(r) ==
  /\ stage[r] = "auth"
  /\ Advance(r, "function")
  /\ UNCHANGED limiterVars

\* 401 for a bad token, 403 for a token without permission.
AnswerUnauthorized(r) ==
  /\ cfg.jwtAuth
  /\ stage[r] = "auth"
  /\ ReturnToLimiter(r)
  /\ \E code \in {"401", "403"} : Answer(r, code)

FunctionReturns(r) ==
  /\ stage[r] = "function"
  /\ ReturnToLimiter(r)
  /\ \E code \in {"200", "500"} : Answer(r, code)

\* Mutated form of FunctionPanics: the request is counted as well.
FunctionPanicsCounted(r) ==
  /\ stage[r] = "function"
  /\ panics < MaxPanics
  /\ IF cfg.limited THEN Limiter!BackendPanic(r) ELSE UNCHANGED limiterVars
  /\ panics' = panics + 1
  /\ firstLost' = IF first[r] THEN TRUE ELSE firstLost
  /\ requestsTotal' = requestsTotal + 1
  /\ stage' = [stage EXCEPT ![r] = "leaving"]
  /\ first' = [first EXCEPT ![r] = FALSE]
  /\ UNCHANGED <<cfg, firstRequestRecorded, firstSamples, inFlight, status, life,
                 probeVars, arrivals>>

\* Only deferred statements run: neither the limiter's last line, nor the counter,
\* nor the first-request observation.
FunctionPanics(r) ==
  /\ stage[r] = "function"
  /\ panics < MaxPanics
  /\ IF cfg.limited THEN Limiter!BackendPanic(r) ELSE UNCHANGED limiterVars
  /\ panics' = panics + 1
  /\ firstLost' = IF first[r] THEN TRUE ELSE firstLost
  /\ stage' = [stage EXCEPT ![r] = "leaving"]
  /\ first' = [first EXCEPT ![r] = FALSE]
  /\ UNCHANGED <<cfg, metricVars, status, life, probeVars, arrivals>>

(***************************************************************************)
(* InstrumentHandler, on the way out                                       *)
(***************************************************************************)
\* promhttp.InstrumentHandlerCounter
CountRequest(r) ==
  /\ stage[r] = "answered"
  /\ requestsTotal' = requestsTotal + 1
  /\ stage' = [stage EXCEPT ![r] = "total"]
  /\ UNCHANGED <<cfg, limiterVars, firstRequestRecorded, firstSamples, inFlight,
                 status, first, life, probeVars, historyVars>>

ObserveFirstRequest(r) ==
  /\ stage[r] = "total"
  /\ firstSamples' = IF first[r] THEN Append(firstSamples, status[r]) ELSE firstSamples
  /\ first' = [first EXCEPT ![r] = FALSE]
  /\ stage' = [stage EXCEPT ![r] = "leaving"]
  /\ UNCHANGED <<cfg, limiterVars, firstRequestRecorded, inFlight, requestsTotal,
                 status, life, probeVars, historyVars>>

\* Mutated form of LeaveInFlight: an explicit Dec beside the deferred one.
LeaveInFlightTwice(r) ==
  /\ stage[r] = "leaving"
  /\ inFlight' = inFlight - 2
  /\ stage' = [stage EXCEPT ![r] = "idle"]
  /\ status' = [status EXCEPT ![r] = "none"]
  /\ UNCHANGED <<cfg, limiterVars, firstRequestRecorded, firstSamples, requestsTotal,
                 first, life, probeVars, historyVars>>

\* The deferred InFlight.Dec; the request's recorder is gone with it.
LeaveInFlight(r) ==
  /\ stage[r] = "leaving"
  /\ inFlight' = inFlight - 1
  /\ stage' = [stage EXCEPT ![r] = "idle"]
  /\ status' = [status EXCEPT ![r] = "none"]
  /\ UNCHANGED <<cfg, limiterVars, firstRequestRecorded, firstSamples, requestsTotal,
                 first, life, probeVars, historyVars>>

(***************************************************************************)
(* GET /_/ready                                                            *)
(***************************************************************************)
ProbeGoes(p, to, code) ==
  /\ probeStage' = [probeStage EXCEPT ![p] = to]
  /\ answer' = [answer EXCEPT ![p] = code]
  /\ UNCHANGED <<cfg, metricVars, requestVars, life, historyVars>>

\* Mutated form of ReadyLoadsFlag: only the lock file is looked for.
ReadyIgnoresFlag(p) ==
  /\ probeStage[p] = "idle"
  /\ ProbeGoes(p, "lock", "none")
  /\ UNCHANGED limiterVars

ReadyLoadsFlag(p) ==
  /\ probeStage[p] = "idle"
  /\ IF acceptingConnections # 0 THEN ProbeGoes(p, "lock", "none")
                                 ELSE ProbeGoes(p, "idle", "503")
  /\ UNCHANGED limiterVars

ReadyStatsLock(p) ==
  /\ probeStage[p] = "lock"
  /\ IF ~lockFile THEN ProbeGoes(p, "idle", "503")
     ELSE ProbeGoes(p, IF cfg.limited THEN "met" ELSE "endpoint", "none")
  /\ UNCHANGED limiterVars

ReadyLoadsStarted(p) ==
  /\ probeStage[p] = "met"
  /\ Limiter!MetLoadStarted(p)
  /\ ProbeGoes(p, "met", "none")

ReadyLoadsCompleted(p) ==
  /\ probeStage[p] = "met"
  /\ Limiter!MetLoadCompleted(p)
  /\ IF met'[p] THEN ProbeGoes(p, "idle", "429") ELSE ProbeGoes(p, "endpoint", "none")

\* The request for ready_path is built, which may fail, and given to the function.
ReadyEndpoint(p) ==
  /\ probeStage[p] = "endpoint"
  /\ \/ ~cfg.readyPath /\ ProbeGoes(p, "idle", "200")
     \/ cfg.readyPath /\ ProbeGoes(p, "function", "none")
     \/ cfg.readyPath /\ ProbeGoes(p, "idle", "500")
  /\ UNCHANGED limiterVars

\* The function's own answer, or none if it panics.
ReadyFunctionEnds(p) ==
  /\ probeStage[p] = "function"
  /\ \E code \in {"200", "500", "none"} : ProbeGoes(p, "idle", code)
  /\ UNCHANGED limiterVars

(***************************************************************************)
(* The flag and the lock file, moved by main and the signal goroutine      *)
(***************************************************************************)
\* A process that cannot write the file ends, which is Lifecycle's subject.
WriteLockFile ==
  /\ mainPc = "lock" /\ mainPc' = "accept"
  /\ lockFile' = (lockFile \/ ~cfg.suppressLock)
  /\ UNCHANGED <<sigPc, acceptingConnections, earlyStop>>

AcceptConnections ==
  /\ mainPc = "accept" /\ mainPc' = "waiting"
  /\ acceptingConnections' = 1
  /\ UNCHANGED <<sigPc, lockFile, earlyStop>>

\* Mutated form of StopAccepting: only the lock file is removed, in the next step.
StopAcceptingWithoutStore ==
  /\ sigPc = "select" /\ sigPc' = "remove"
  /\ earlyStop' = (mainPc # "waiting")
  /\ UNCHANGED <<mainPc, acceptingConnections, lockFile>>

StopAccepting ==
  /\ sigPc = "select" /\ sigPc' = "remove"
  /\ acceptingConnections' = 0
  /\ earlyStop' = (mainPc # "waiting")
  /\ UNCHANGED <<mainPc, lockFile>>

\* The error of os.Remove is only logged.
RemoveLockFile ==
  /\ sigPc = "remove" /\ sigPc' = "tick"
  /\ lockFile' \in {FALSE, lockFile}
  /\ UNCHANGED <<mainPc, acceptingConnections, earlyStop>>

LifeGoesOn ==
  /\ WriteLockFile \/ AcceptConnections \/ StopAccepting \/ RemoveLockFile
  /\ UNCHANGED <<cfg, limiterVars, metricVars, requestVars, probeVars, historyVars>>

\* All requests of the bounded behaviour are through.
Terminated == arrivals = MaxArrivals /\ UNCHANGED vars

Next ==
  \/ \E r \in Requests :
       \/ MarkFirstRequest(r) \/ EnterInFlight(r) \/ EnterLimiter(r)
       \/ SkipLimiter(r) \/ JudgeRequest(r) \/ AnswerRefused(r) \/ Authorize(r)
       \/ AnswerUnauthorized(r) \/ FunctionReturns(r) \/ FunctionPanics(r)
       \/ CountRequest(r) \/ ObserveFirstRequest(r) \/ LeaveInFlight(r)
  \/ \E p \in Probes :
       \/ ReadyLoadsFlag(p) \/ ReadyStatsLock(p) \/ ReadyLoadsStarted(p)
       \/ ReadyLoadsCompleted(p) \/ ReadyEndpoint(p) \/ ReadyFunctionEnds(p)
  \/ LifeGoesOn
  \/ Terminated

Spec == Init /\ [][Next]_vars

---------------------------------------------------------------------------
(***************************************************************************)
(* Properties                                                              *)
(***************************************************************************)
Codes == {"none", "200", "401", "403", "429", "500"}

Stages == {"idle", "marked", "counted", "limiter", "refused", "auth", "function",
           "answered", "total", "leaving"}

\* Type invariant.
TypeOK ==
  /\ cfg \in Configs
  /\ Limiter!TypeOK
  /\ stage \in [Requests -> Stages]
  /\ status \in [Requests -> Codes]
  /\ first \in [Requests -> BOOLEAN]
  /\ firstRequestRecorded \in BOOLEAN
  /\ firstSamples \in Seq(Codes)
  /\ inFlight \in Nat
  /\ requestsTotal \in Nat
  /\ mainPc \in {"lock", "accept", "waiting"} /\ sigPc \in {"select", "remove", "tick"}
  /\ acceptingConnections \in {0, 1} /\ lockFile \in BOOLEAN /\ earlyStop \in BOOLEAN
  /\ probeStage \in [Probes -> {"idle", "lock", "met", "endpoint", "function"}]
  /\ answer \in [Probes -> {"none", "200", "429", "500", "503"}]
  /\ arrivals \in 0..MaxArrivals
  /\ panics \in 0..MaxPanics
  /\ firstLost \in BOOLEAN

At(stages) == {r \in Requests : stage[r] \in stages}

\* The first-request sample is claimed by one request and observed at most once:
\* after the claim it is pending, observed or lost to a panic, and never two of
\* these, however the first requests interleave.
FirstSampleClaimedOnce ==
  Len(firstSamples) + Cardinality({r \in Requests : first[r]})
      + (IF firstLost THEN 1 ELSE 0)
    = IF firstRequestRecorded THEN 1 ELSE 0

\* Every request that has arrived is still on its way, has been counted by
\* http_requests_total, or panicked; none is counted twice or forgotten.
RequestsAccounted ==
  arrivals = requestsTotal + panics
             + Cardinality(At({"marked", "counted", "limiter", "refused", "auth",
                               "function", "answered"}))

\* The in-flight gauge, which the drain reports, covers every ticket the limiter
\* has given out, save those lost to panics.
GaugeCoversTickets ==
  cfg.limited => Limiter!Diff(requestsStarted, requestsCompleted) <= inFlight + panics

\* Behind limiter and JWT, the function serves at most MaxInflight clients as long
\* as no request was overtaken in the limiter.
ClientCallsWithinLimit ==
  cfg.limited /\ ~overtaken => Cardinality(At({"function"})) <= MaxInflight

\* A probe finds the service ready, or busy, or is sent on to the function only once
\* main has set the flag: the lock file, which is written before, or which an earlier
\* process may have left, is not enough.
ReadyOnlyOnceAccepting ==
  \A p \in Probes :
    probeStage[p] \in {"met", "endpoint", "function"} \/ answer[p] \in {"200", "429", "500"}
      => mainPc = "waiting"

\* A stop of a service that had been ready turns away every probe that begins after
\* it, also when the lock file could not be removed; only a probe that had loaded the
\* flag before may still be told ready.  An early stop, whose 0 main overwrites, is
\* left out: StoppingIsUnhealthy of Lifecycle is about that.
StopEndsReadiness ==
  [][\A p \in Probes :
       sigPc # "select" /\ ~earlyStop /\ probeStage[p] = "idle" => probeStage'[p] = "idle"]_vars

=============================================================================

# A TLA+ specification of of-watchdog

of-watchdog is the process that runs inside an OpenFaaS function container. It
accepts HTTP requests, hands them to the function (a child process per request,
a child HTTP server, static files or an in-process handler), answers health and
readiness probes, exports metrics, and drains when the orchestrator stops it.
This directory models its concurrent core, checks the models with TLC and
proves their safety properties with TLAPS.

Paths below are relative to `src/`. Line numbers are those of the mapped commit.

## 1. Inventory

| Component | State | Operations | What is hard |
|---|---|---|---|
| Concurrency limiter (`vendor/.../concurrency-limiter`) | two uint64 counters | `ServeHTTP`, `Met` | no lock: a ticket is drawn, compared and given back by separate atomic operations; counters wrap; handlers panic |
| Process lifecycle (`pkg/watchdog.go`, `main.go`) | `acceptingConnections`, `/tmp/.lock`, `idleConnsClosed`, the http.Server | `Start`, `listenUntilShutdown`, `createLockFile`, `markUnhealthy`, health handler | four goroutines; SIGTERM during startup; two closers of one channel; timers; failing system calls; stale lock file |
| Metrics server (`metrics/metrics.go`) | its listener | `Register`, `Serve` | fixed port, panics on error |
| Instrumentation (`metrics/`) | in-flight gauge, request counter, first-request flag and sample | `InstrumentHandler`, `TryMarkFirstRequest` | panics between the updates; which request is the first |
| Readiness (`pkg/readiness.go`) | none of its own | `ServeHTTP` | reads flag, lock file and limiter at different times; calls the function outside limiter and instrumentation |
| JWT middleware (`vendor/.../auth`) | key set fetched at startup | `NewJWTAuthMiddleware`, `ServeHTTP` | construction can fail; runs inside the limiter |
| HTTP runner (`executor/http_runner.go`) | the child process | `Start`, `Run` | signal forwarding, child exit, per-request timeout against the upstream's answer |
| Serializing runner (`executor/serializing_fork_runner.go`) | a child and three pipes per request | `Run`, `pipeToProcess` | pipe goroutines, error collection, early returns without `Wait` |
| Streaming runner (`executor/streaming_runner.go`) | a child per request | `Run` | status sent before the outcome is known |
| In-process runner (`executor/inproc_runner.go`) | none | `Run` | context timeout of 0 |
| Log forwarding (`executor/logging.go`) | a pipe reader | `pipeBuffered`, `pipeUnbuffered` | stops reading on a long line |
| Configuration (`config/`) | none | `New` and its parsers | malformed, zero and overflowing numbers |

Interaction: `Start` stacks the handlers as instrumentation(limiter(JWT(function
handler))); the readiness handler calls the unwrapped function handler and the
limiter's `Met`; the health and readiness handlers read the flag and the lock
file that main and the signal goroutine write; the signal goroutine ends the
server and releases main through `idleConnsClosed`.

What makes each component correct:

- *Limiter*: no ticket is lost or given back twice on any way out of `ServeHTTP`;
  at most `max_inflight` handlers run; nobody is refused while capacity is free;
  `Met` tells the truth.
- *Lifecycle*: a stop request ends the process; `Start` does not return while
  requests are in progress; a draining service is unhealthy and a ready one
  healthy; `idleConnsClosed` is closed once; a failure shows in the exit status.
- *Instrumentation*: every request is counted once; the gauge returns to zero;
  there is one first-request sample and it is a function request.
- *Readiness*: ready only between the start of accepting and the drain, and not
  above the limit.
- *Runners*: one start and one answer per request; an answer that passes for the
  function's output only when the function succeeded; a timeout that ends the
  request and the function; no handler kept busy for a client that left; no child
  left unreaped.
- *Function of mode=http*: a SIGTERM reaches it; its failure ends the process.
- *Log forwarding*: lines arrive whole, in order and promptly; the function never
  blocks on its own logs while they are read.
- *Configuration*: a limit is never turned off by accident; what starts to serve
  has what its mode needs.

## 2. Modules

| Module | Models | Composes |
|---|---|---|
| `ConcurrencyLimiter` | `ServeHTTP` and `Met`, one action per atomic operation | |
| `MCConcurrencyLimiter` | instances for TLC | `ConcurrencyLimiter` |
| `ConcurrencyLimiterProofs` | four theorems | `ConcurrencyLimiter` |
| `Lifecycle` | main, signal, serve and metrics goroutines, lock file, health endpoint, connections | instantiates `GracefulServer` |
| `GracefulServer` | what `listenUntilShutdown` promises, without goroutines | |
| `MCLifecycle` | configurations for TLC | `Lifecycle` |
| `LifecycleProofs` | its invariants, one action property and the safety half of the refinement | `Lifecycle` |
| `RequestPath` | a request through instrumentation, limiter, JWT, function; a probe through the readiness handler | instantiates `ConcurrencyLimiter` |
| `MCRequestPath` | instances for TLC | `RequestPath` |
| `RequestPathProofs` | its invariants and its action property | `RequestPath`, instantiates `ConcurrencyLimiterProofs` |
| `Invocation` | what every runner promises for one request | |
| `ForkRunner` | one request in mode=serializing or mode=streaming: the child, its pipes, the goroutines on them, the kill | instantiates `Invocation` |
| `HTTPRun` | one request in mode=http or mode=inproc: contexts, transport, upstream | instantiates `Invocation` |
| `HTTPMode` | the process with the function of mode=http, its signal forwarder and its waiter | extends `Lifecycle` |
| `LogPipe` | one output of the function on its way to the log | |
| `Configuration` | `config.New` and `buildRequestHandler` | |
| `MCForkRunner`, `MCHTTPRun`, `MCHTTPMode`, `MCLogPipe`, `MCConfiguration` | instances for TLC | |
| `ForkRunnerProofs`, `HTTPRunProofs` | invariants, and that the runner implements `Invocation` | the runner |
| `HTTPModeProofs` | that the process keeps its promises in mode=http | `HTTPMode`, extends `LifecycleProofs` |
| `LogPipeProofs`, `ConfigurationProofs` | their invariants | the component |

### ConcurrencyLimiter

`requestsStarted` and `requestsCompleted` are the two atomic counters, with values
below `Modulus` in place of 2^64. A request goroutine has a program counter `pc`
and the `ticket` that `AddUint64` returned.

| Action | Code (`concurrency_limiter.go`) |
|---|---|
| `TakeTicket` | 70: `AddUint64(&requestsStarted, 1)` |
| `CheckLimit` | 71-72: the load of `requestsCompleted` and the unsigned comparison |
| `Refuse` | 74-84: give the ticket back, answer 429 |
| `Complete` | 87-88: the handler returned, give the ticket back |
| `BackendPanic` | 87-88: the handler panicked, line 88 is skipped |
| `MetLoadStarted`, `MetLoadCompleted` | 57-58: the two loads of `Met` |

`overtaken` is a history variable: some request has made its comparison when its
ticket was no longer the newest, so that what others did in between was judged as
well. `lost` counts panics. The
early returns for a limit of 0 (lines 51 and 65) are left out since
`Watchdog.Start` builds no limiter then.

### Lifecycle

One program counter per goroutine; a step is one statement that other goroutines
can observe. `acceptingConnections`, `lockFile`, `idleConnsClosed`, `sigChan`,
`ctxDone`, `inShutdown` are the shared objects. `cfg` is the configuration, with
the set of system calls that may fail in this behaviour.

| Action | Code (`pkg/watchdog.go`) |
|---|---|
| `BuildHandlers`, `MakeJWTAuthHandler`, `StartMetrics`, `SpawnGoroutines` | `Start` 76-130 and `listenUntilShutdown` 197-260 |
| `WriteLockFile`, `AcceptConnections` | `createLockFile` 332-350 and the `suppress_lock` branch 262-280 |
| `ReturnFromStart` | 282-286, `main.go` 64-73 |
| `Notify`, `AwaitStop` | 203-216: `signal.Notify`, then SIGTERM or the context |
| `StopAccepting`, `RemoveLockFile` | `markUnhealthy` 172-181 |
| `WaitIntervalThenShutdown`, `ShutdownPoll`, `ShutdownTimeout` | 225-240: the tick, `Shutdown` and its context |
| `SignalClosesChannel`, `ServeClosesChannel` | 242-257: the two `close(idleConnsClosed)`; the second one panics |
| `ListenAndServe`, `ServeReturns` | 132-138, 251-252 |
| `MetricsListenAndServe`, `MetricsPanic` | `metrics.go` 29-68 |
| `ProbeLoadsFlag`, `ProbeStatsLock` | `makeHealthHandler` 705-718, `lockFilePresent` 686-695 |
| `SendSIGTERM`, `CancelContext`, `Connect`, `Request`, `Respond`, `Disconnect` | the environment |

What is assumed of `net/http` (external in the map): `Shutdown` stops the
listener first, closes idle connections at every poll and returns nil when none
is left; a poll is one step; a connection whose request ends during shutdown is
closed; a new connection counts as idle; `Serve` returns `ErrServerClosed` only
after `Shutdown` was called.

### GracefulServer

The abstract specification has three variables, `phase`, `active` and `outcome`.
The refinement mapping reads them off the process: `Phase` from `mainPc`,
`inShutdown` and `servePc`; `Active` is the set of connections with a request in
progress; `Outcome` combines the way the process ended with what `Shutdown`
returned. `RefinesGracefulServer` says that requests begin only while the server
serves or drains, that a drain always ends, and that a clean end cuts nobody off.

### RequestPath

`stage[r]` is where a request stands in the handler stack, `status[r]` the status
it was answered with, `first[r]` the local `firstRequest` of `InstrumentHandler`.
The limiter's variables are those of `ConcurrencyLimiter`, moved by its own
actions: every request step that passes the limiter conjoins one of them.

| Action | Code |
|---|---|
| `MarkFirstRequest`, `EnterInFlight` | `metrics.go` 80 (compare-and-swap), 83 |
| `EnterLimiter`, `JudgeRequest`, `AnswerRefused` | the limiter, 70-84; `SkipLimiter` when `max_inflight` is 0 |
| `Authorize`, `AnswerUnauthorized` | `jwt_authenticator.go` 39-119: pass, 401 or 403 |
| `FunctionReturns`, `FunctionPanics` | the function handler; a panic runs deferred statements only |
| `CountRequest`, `ObserveFirstRequest`, `LeaveInFlight` | `metrics.go` 86 (`InstrumentHandlerCounter`, not deferred), 89-91, 84 (deferred) |
| `ReadyLoadsFlag`, `ReadyStatsLock`, `ReadyLoadsStarted`, `ReadyLoadsCompleted` | `readiness.go` 48-53, in this order |
| `ReadyEndpoint`, `ReadyFunctionEnds` | `readiness.go` 55-79: no `ready_path`, a request that cannot be built (500), or the function handler, without limiter, JWT or instrumentation |
| `WriteLockFile`, `AcceptConnections` | `watchdog.go` 262-280, 332-348: main writes the file, unless `suppress_lock`, and sets the flag |
| `StopAccepting`, `RemoveLockFile` | `markUnhealthy` 172-181: the signal goroutine clears the flag and removes the file, or fails to |

`LifeGoesOn` is the disjunction of the last four, interleaved as the two goroutines
are: a stop may come before, between or after main's steps (`earlyStop`), the file
may be stale or missing, and its removal may fail. What ends the process, and the
listener that the shutdown closes under probes and requests, is Lifecycle's subject.

### Invocation

The abstract specification of a runner: `function` is not started, running or
over with success or failure; `answer` is none, the function's output, an error
or something that tells nothing of the outcome (`void`). A function starts at
most once and not after the answer; there is one answer; `output` needs a
function that succeeded. It does not promise an answer: without a timeout there
need not be one. A runner maps to it by two operators: `Outcome`, what has become of
the function, and `Told`, what the client has learnt of it.

### ForkRunner

One request against any program. Bytes are counted, not named: `inPut`, `inBuf`
for standard input, `written`, `outBuf`, `got` for standard output, so that both
pipes can be full. `heir` is a process that the function leaves behind and that
inherits its pipes.

| Action | Code (`serializing_fork_runner.go`; `streaming_runner.go` where named) |
|---|---|
| `ReadBody`, `BodyIsRead` | 91-108: `io.ReadAll` of the body before the fork; in streaming mode os/exec's copying goroutine reads it |
| `StartSucceeds`, `StartFails` | 110-116; `streaming_runner.go` 52-54 and the handler at `watchdog.go` 463 |
| `AwaitPipes`, `ErrorsRead` | 122-125, 175-177: what `errors` looks like to a reader that nothing orders after the append |
| `WriteStdin`, `StdinBroken`, `CloseStdin` | 151-161 |
| `ReadStdout`, `StdoutEnds`, `StdoutFails` | 163-173 |
| `SendError`, `AppendError` | 138-146: the collector receives, then stores |
| `ReapProcess`, `WaitReturns` | 127-129, 54-69; `streaming_runner.go` 56: `cmd.Wait` |
| `TimerFires`, `KillOnDone` | 80-88: the context and os/exec's goroutine on it |
| `ProgramReads`, `ProgramWrites`, `ProgramCloses`, `ProgramExits`, `LeaveHeir` | the programs, external |

The unsynchronised read of `errors` is a data race. `ErrorsRead` is its set of
outcomes: the append unseen, the new length with a nil error, half an interface
value, or the error.

### HTTPRun

One request with path `client` (the runner's own `http.Client`), `proxy` (the
standard library's reverse proxy, for event streams and websockets) or `inproc`.
`elapsed` counts the time since the context was made, up to the timeout.

| Action | Code (`http_runner.go`) |
|---|---|
| `BufferBody` | 126-132, the error ignored |
| `NewRequest`, `NewRequestFails` | 134-159, 500 by `watchdog.go` 641; in process `inproc_runner.go` 59-66 |
| `Timeout`, `Timed` | `getTimeout` 239-251, 153-158 |
| `Call`, `CallFails`, `AwaitFails` | 171 (or the proxy at 165), 265-286 |
| `Retry` | net/http's transport: a request on an idle connection that turned out closed, if it may be sent again |
| `ReplyFailed` | 172-202: 504 if the context is done, else 500; the proxy's empty `ErrorHandler`, `watchdog.go` 600 |
| `Respond`, `CopyEnds`, `CopyCancelled` | 204-217 |
| `Tick`, `TimerFires`, `ClientLeaves`, `ClientBodyEnds`, `UpstreamEnds` | time, client and upstream, external |

`CallFails` may happen at any time: a connection can be refused. With a negative
`exec_timeout`, which is the `Dialer`'s timeout too (`NeverDials`), no connection is
ever made. `Limited` says which requests have a limit at all. The runner is one
whose `Start` has made its `Client`; after an early return (HTTPMode) the `Client`
is nil, and `net/http` recovers the panic of every request.

### HTTPMode

Lifecycle's state and actions with eight variables of `HTTPFunctionRunner.Start`
(`http_runner.go` 65-113), which main calls while it builds the handlers and whose
error it does not look at (`watchdog.go` 622).

| Action | Code (`http_runner.go`) |
|---|---|
| `ReturnEarly` | 76-84: a pipe of stdin or stdout cannot be made; no goroutine, no function, no `Client` |
| `SpawnForwarder` | 86-101: the log readers, the one of stderr on a nil pipe if `StderrPipe` failed, and the forwarder |
| `StartChild` | 103-113: `cmd.Start`, which may fail, and the waiter |
| `ForwarderNotify`, `ForwardSIGTERM` | 95-100: subscribe, pass the signal on, or panic without a process |
| `WaitChild` | 104-110: ends the process if the function failed or was never started |
| `LogReaderPanics` | `logging.go` 43-60 on the nil pipe |
| `DeliverSIGTERM`, `ChildExits` | `os/signal`, which gives a copy of the signal to every goroutine that has subscribed, in place of Lifecycle's `SendSIGTERM`; the function |

`FailedFunctionEndsProcess` names the two cases in which the watchdog goes on
without its function (`Unnoticed`): an exit with status 0, and an early return.
Metrics server and health probes, which share nothing with the
function, are left to the `lifecycle` run.

### LogPipe

`lines` is what the function would write, as lengths; `wrote` and `got` are
positions in it. `Read` takes any number of bytes that the reader's buffer has
room for, `LogLine` logs a complete line, `StopTooLong` is `bufio.ErrTooLong`,
`EndOfPipe` is the end or the close by `cmd.Wait`, with what each reader makes of
an unterminated last line (`Rest`).

### Configuration

A text is unset, empty, an integer, a duration with a unit or another word (a
duration too long for its width is an error of `time.ParseDuration`, and so a
word). `New`
computes the record of durations, integers, paths and mode (`Loaded`) or exits
(`Invalid`); `BuildRequestHandler` serves or exits. Integers and durations have a
width (`Wrap`), since a number of seconds is multiplied without a check.

## 3. Runs

| Run | Instance | Distinct states | Shows |
|---|---|---|---|
| `limiter` | 3 clients, 1 probe, limit 1, counters wrap at 6, 1 panic | 419,616 | tickets conserved across wrap-around, limit kept unless overtaken, newest ticket judged exactly |
| `lifecycle` | 2 clients, 6 configurations, with and without a stale lock file | 196,972 | drain, health, double close, causes of an end, termination, refinement |
| `request_path` | 2 clients, 1 probe, 3 arrivals, 1 panic, limit 1; full stack, and default stack with and without `suppress_lock` and a stale lock file | 3,658,541 | accounting, first-request claim, gauge against tickets, calls within the limit, readiness only from the flag's store to its clearing |
| `fork_runner` | both modes, with and without timeout, 2 bytes each way, pipes of 1 byte | 141,388 | output whole and of a successful function, children reaped and killed, no deadlock on the pipes, `Invocation` |
| `http_run` | 3 paths, a negative limit, none and one of 2, X-Timeout from -1 to 3, 2 idle connections | 102,716 | no wait past the limit and 504 only at it, answers at the deadline and for clients that left, `Invocation` with every retry |
| `http_mode` | 1 client, the default configuration and a failing listener | 302,039 | signals reach the function, its failure ends the process but for two named cases, and `GracefulServer` is still implemented |
| `log_pipe` | no line, 2 or 3 lines of 0 to 4 bytes, buffers of -1, 0, 1, 3, 4, 5 bytes, pipe of 3 bytes | 32,486 | lines whole, in order and complete; where logging stops; the function not blocked |
| `configuration` | 15 texts for every number, all modes and options | 18,942 | no limit off by accident, nothing served that cannot be |

Three clients with a limit of 1 are enough for the limiter's race: one request
serves, one is delayed at its comparison, one is refused and moves
`requestsCompleted` under it. The counters start at 0, so a modulus of 6 makes
both wrap several times; it has to exceed the number of tickets that can be out,
which 2^64 does. `RequestPath` makes the same assumption. Two clients in Lifecycle give one connection that is drained
beside one that opens late. In `request_path` no counter wraps (modulus 5, three
arrivals): wrap-around is the `limiter` run's subject. Two of the three arrivals
are concurrent and the third reuses a goroutine, as a keep-alive connection does.

Two bytes through pipes of one byte are enough for either side of a fork runner
to block the other: a function that writes before it reads, a runner that still
writes. A second byte distinguishes an output cut short from an empty one. Two
idle connections let a request fail on one, be sent again and fail again before
it gets a new connection. In `http_run` the clock goes one past the limit, so a
limit that was missed shows. The line lengths of `log_pipe` lie below, at and
above every buffer size, with and without the newline. A width of 6 bits in
`configuration` (64 values, 4 to a second) has numbers of seconds that fit, that
overflow to a negative duration and to 0, and integers that do not parse.

Deadlock is checked in the runs of the limiter, the process and the request path:
their models have an explicit `Terminated` step where the process has ended or the
bounded behaviour is through. In `fork_runner`, `http_run`, `log_pipe` and
`configuration` a request, a line or a start simply ends, or waits for a function
that owes nothing, and deadlock is not checked; their liveness properties say
what may not stop.

Each passing property has a mutant in `PROJECT.json`, an operator beside the
definition it replaces, that makes TLC refute it.

### Runs that expect a violation

These check what a document or comment says and the code does not do.

| Run | Violated | What happens |
|---|---|---|
| `limiter_exceeded` | `InflightNeverExceedsMax` | a refusal between a request's ticket and its comparison lets one request too many through |
| `lifecycle_early_stop` | `StoppingIsUnhealthy` | SIGTERM is handled while main still writes the lock file: the flag goes to 0 and then to 1 |
| `fork_runner_start` | `ForkFailureReported` | in mode=streaming a function that cannot be forked gives an empty 200 |
| `configuration_port` | `MalformedPortIsDefault` | a malformed port is 0, any free port, and not 8080 |

### Seen while modelling, without a run of their own

In the limiter:
- A request overtaken by more completions than its own ticket number computes a
  negative difference, which wraps, and gets a 429 with capacity free
  (`concurrency_limiter.go` 72).
- A panicking handler keeps its slot for ever (line 88 is not deferred; `lost`).
- `Met` loads two counters at different times and can answer true with free capacity.

In the process:
- With `healthcheck_interval=0`, which `config.go` accepts, `time.Tick` returns nil
  and the shutdown never continues (`watchdog.go` 226), although line 233 says that
  it does not wait indefinitely.
- When the lock file cannot be written `Start` drops the error and the process
  exits with status 0 (156).
- With `suppress_lock` the health handler still wants the file nobody writes (710).
- The README's examples use port 8081 (81, 87), which is the metrics port: the
  server that binds second fails and the process ends.
- The lock file also exists when the listener has failed, and outlives a process
  that ends on a failure.
- In mode=http a SIGTERM between the two subscriptions reaches only the forwarder
  (`http_runner.go` 97): the function is told to stop and the watchdog is not, and
  if the function exits with status 0 the watchdog goes on without it.
- The function is told to stop as soon as SIGTERM arrives, before the
  `healthcheck_interval` and the drain, so requests in progress may lose their
  upstream.
- A SIGTERM before `cmd.Start`, or after it failed, is a nil dereference (100).
- A function that exits with status 0 goes unnoticed: the watchdog stays healthy and
  answers for a function that is gone (106).
- When a pipe of stdin or stdout cannot be made, `Start` returns before it has spawned
  anything (`http_runner.go` 76-84) and the caller ignores the error (`watchdog.go` 622):
  the watchdog serves without a function. The error of `StderrPipe` is dropped, and
  its log reader panics on the nil pipe (86-89).
- A stale lock file, or one that could not be removed, does not make a probe of
  `/_/ready` or `/_/health` succeed by itself, but does for `--run-healthcheck`, which
  looks at the file alone.

In a request:
- A request answered with 401, 403 or 429 uses up the one first-request sample
  (`metrics.go` 80), which `metrics/http.go` 35 says is of a real business request.
- A probe with `ready_path` calls the function without a ticket, one call above the
  limit; a request whose handler panics is missing from `http_requests_total`.
- A proxied request has no `exec_timeout`; a failed one is answered with an empty
  200, since the `ErrorHandler` is empty (`watchdog.go` 600).
- An `X-Timeout` of 0s or less turns `exec_timeout` off for a request
  (`http_runner.go` 244, 153), which then waits for a silent upstream without end. A
  negative `exec_timeout` makes every connection to the function time out before it
  is made (271), so each request is answered with 500.
- In mode=inproc an `exec_timeout` of 0, which the README calls disabled (196), is a
  context that has already expired (`inproc_runner.go` 61).
- A body that breaks off while it is buffered is passed on as a whole one (130).
- In the fork modes a process that the function left behind holds the request past
  `exec_timeout`: the kill does not reach it. A broken pipe leaves the process
  unreaped (`serializing_fork_runner.go` 123). The unsynchronised read of `errors`
  (177) may turn an error into an empty 200, or panic.

## 4. Fairness

`Lifecycle` assumes weak fairness of `MainStep` and `SignalStep`: the Go
scheduler runs runnable goroutines, and timers (the tick of
`healthcheck_interval`, the context of `Shutdown`) fire. Nothing is assumed of
clients, probes, signals or faults; a client may keep its request open for ever,
and `ShutdownTimeout` is what ends the drain then. `StopEndsProcess` is
restricted to a positive interval, since a nil ticker blocks the shutdown
otherwise. The limiter, the request path and `Configuration`
have safety properties only and no fairness.

`HTTPMode` adds the forwarder and the waiter, two more goroutines. `ForkRunner`
assumes that the handler and each goroutine of the runner take the steps they can,
that the timer fires, and that a body which does not come is ended by
`read_timeout` (part of `Writer`); `HTTPRun` assumes the handler, the clock, its
timer and the same of the body; `LogPipe` the reader. Nothing is assumed of the
function, the processes it leaves behind, the upstream or the client: they may
stop at any point, which is why `DeadlineEndsInvocation` and `HandlerFreed` need a timeout
or a client that left, and `FunctionNotBlocked` speaks of the reader only.
`ForkRunner!StdoutFails`, `HTTPRun!CallFails`, `CopyEnds` and
`HTTPMode!LogReaderPanics` are faults or the upstream's choice and have none.

## 5. Proofs

All theorems hold for every value of the constants under the modules' named
assumptions, each of which TLC evaluates on the runs:

- `ConcurrencyLimiter`, `RequestPath`: finitely many requests, and a modulus above
  the number of tickets that can be out, as 2^64 is;
- `Lifecycle`, `HTTPMode`: any clients and any configurations of the record type;
- `ForkRunner`, `HTTPRun`: any lengths of body and output, any capacity of the pipes,
  any set of requests, any number of idle connections;
- `LogPipe`: any set of outputs, any buffer sizes, a pipe of at least one byte;
- `Configuration`: any set of environments, any even modulus in which a second and
  the defaults fit.

| Theorem | States | Argument |
|---|---|---|
| `ConcurrencyLimiterProofs!TypeCorrect` | `TypeOK` | one case per action |
| `Conservation` | `TicketsConserved` | inductive with the types; `Inside` changes by one request per action, `Diff` by one modulo |
| `LimitSafe` | `LimitHoldsUnlessOvertaken` | conservation, and an invariant on the tickets of requests that have not compared yet |
| `NewestExact` | `NewestTicketExact` | conservation applied to the comparing step |
| `LifecycleProofs!TypeCorrect`, `Drained`, `Unhealthy`, `DoubleClose` | the invariants of the run | one inductive invariant, `LifecycleInv` |
| `LockedHealthy` | `LockedServiceIsHealthy`, an action property | `LockInv`: the file exists whenever a probe may look for it |
| `CausedEnd` | `EndsOnlyForCause` | `LifecycleInv`, and `CauseInv`: what fails by itself has a fault or the shared port behind it |
| `ImplementsGracefulServer` | every step is a step of `GracefulServer` or a stutter | `LifecycleInv` and the mapping |
| `HTTPModeProofs!ModeTypeCorrect` | `HTTPTypeOK` | `RunnerInv` and `ProcessInv` |
| `ModeDrained`, `ModeUnhealthy` | `DrainedBeforeReturn`, `UnhealthyWhileDraining` in mode=http | Lifecycle's own theorems, step by step |
| `ModeImplementsGracefulServer` | the same of mode=http as `ImplementsGracefulServer` | the same, a death by the runner being `StopAs("failed")` |
| `RequestPathProofs!TypeCorrect` | `TypeOK` | `StackInv`, `ProbeInv` and the limiter's types |
| `Accounted` | `RequestsAccounted` | `MoveStage`: how a count by stage changes when one request moves |
| `FirstClaimed` | `FirstSampleClaimedOnce` | `FirstInv`: no request outside the stack holds the claim |
| `GaugeCovers` | `GaugeCoversTickets` | the limiter's `Conservation`, and the stages with a ticket are among those in the gauge |
| `ClientsWithinLimit` | `ClientCallsWithinLimit` | the limiter's `LimitSafe`, and who is in the function executes for the limiter |
| `ReadyAfterAccepting` | `ReadyOnlyOnceAccepting` | `ProbeInv` |
| `StopTurnsProbesAway` | `StopEndsReadiness`, an action property | `ProbeInv`: after a stop that was not early the flag is 0 and main has no store left |
| `ForkRunnerProofs!TypeCorrect`, `WholeOutput`, `Reaped` | `TypeOK`, `OutputIsWhole`, `UnreapedOnlyAfterPipeError` | one inductive invariant, `RunInv` |
| `ForkRunnerProofs!ImplementsInvocation` | `RefinesInvocation` | `RunInv` and the mapping, one case per action |
| `HTTPRunProofs!TypeCorrect`, `TimesOut` | `TypeOK`, `TimesOutWhenAsked` | one inductive invariant, `RunInv`, and `TimeoutType`, which ties `Limited` to what `getTimeout` returns |
| `HTTPRunProofs!ImplementsInvocation` | `RefinesInvocation` | `RunInv` and the mapping |
| `LogPipeProofs!TypeCorrect`, `LogFaithful`, `StopsAtLongLine` | `TypeOK`, `LogIsFaithful`, `StopsOnlyAtLongLine` | one inductive invariant, `PipeInv`, and the lemmas on `Ends` |
| `ConfigurationProofs!TypeCorrect`, `NoLimitAsked`, `Serves` | `TypeOK`, `NoLimitOnlyIfAsked`, `ServesOnlyWhatItCan` | `ConfigInv`, and lemmas on what each parser returns |

None of the properties is inductive by itself; the invariants that are say what the
properties leave open. TLC was made to check each of them on the run of its
component before it was proved.

*`LifecycleInv`*: goroutines do not exist before they are spawned (`SpawnInv`),
connections not before the listener (`ConnInv`), the channel is closed by a failed
listener or a finished shutdown (`ChannelInv`), the result of `Shutdown` is there
exactly when the signal goroutine is past it (`ResultInv`), a nil result leaves no
connection (`DrainInv`), and nobody sets the flag after it was cleared on a waiting
main (`ReadyInv`).

*`HTTPModeProofs`* does not repeat that proof. `ProcessStep` shows that a step of
mode=http is a step of Lifecycle, a stutter of it, or the runner ending the process
with `log.Fatalf` or a panic; so `LifecycleInv` holds until such a death
(`ProcessInv`), and after it nothing moves (`NothingAfterEnd`).

*`RequestPathProofs`* uses the limiter's theorems in the same way:
`ConcurrencyLimiterProofs` is instantiated, every step of the stack is shown to be a
step of the limiter or to leave it alone (`LimiterStep`), and `StackInv` says that
the stage of a request and its place in the limiter agree.

*`ForkRunnerProofs!RunInv`*: there is no process and no goroutine before the fork
(`ForkInv`), no answer before the return (`HandlerInv`), a status exactly when the
function has exited (`StatusInv`), a return with the process unreaped only after an
error on a pipe (`ReapInv`), and an end of the output only when nobody can write
any more (`EndInv`). `AwaitOutcome` sums up the race on `errors`: whatever is read,
the answer is not the function's output unless `Wait` is reached.

*`HTTPRunProofs!RunInv`*: what the handler knows at each point (`HandlerInv`), a
clock that stops at the timeout and a 504 only for a context that is done
(`ClockInv`), and at most one call for each idle connection and one for a new one
(`CallInv`).

*`PipeInv`*: until the end of the pipe the log is a prefix of the lines and the
reader is past the last of them (`PrefixInv`), and the pipe ends only after the
function has exited (`EndInv`). The ends of the lines are a recursive function;
that it has a value, and that it increases, is proved by a least counterexample
(`Least`, `EndsExist`, `EndsIncrease`), since the induction theorems of the library
take an operator.

*`ConfigInv`*: what `New` returned is what it makes of the environment, and has
passed every check so far. `WrapFits`, `DurationSays` and `IntFits` say what the
parsers return for any text: a value the text stands for, a default, or a product
that has overflowed.

Only model-checked, because liveness under fairness is out of the prover's reach:
`StopEndsProcess`, `StdoutDrained`, `DeadlineEndsInvocation`, `HandlerFreed`,
`FunctionToldToStop`, `FailedFunctionEndsProcess`, `FunctionNotBlocked`, and the
fairness of `GracefulServer` in `RefinesGracefulServer`. `Invocation` has no
fairness, so its refinement is proved whole. Every invariant that a passing run
checks, and every action property, is proved.

## 6. Plan

1. Done: `ConcurrencyLimiter`, `Lifecycle` with `GracefulServer`, `RequestPath`, and
   their proofs.
2. Done: the runners (`ForkRunner`, `HTTPRun`) and their refinement of `Invocation`,
   `HTTPMode`, `LogPipe`, `Configuration`.
3. Done: every invariant of the passing runs, `RefinesInvocation`, and the safety half
   of `RefinesGracefulServer` for the process alone and in mode=http.
4. To come: the step properties that the liveness arguments rest on and that can be
   stated without fairness (a drain that has begun never goes back to serving, an
   expired context stays expired), and what `Invocation` and `GracefulServer` promise
   by themselves, so that the runners inherit it.

## 7. Not modelled

- Static mode: a file server of the standard library, without state. Its
  construction is in `Configuration`.
- CGI-style environment strings (`getEnvironment`), the splitting of `NAME=value`
  (`mapEnv`) and of the command line (`Process`), header copying: strings without
  control flow.
- Switches read by `getBool` and `getBools`, `prefix_logs`, `log_callid`,
  `content_type`: they change wording or are parameters of the other modules.
- The validation of tokens: cryptography and key fetching. Its outcomes are in
  `RequestPath`, its failure at startup in `Lifecycle`.
- Scraping of metrics, the duration histogram, formatting and wording of logs.
- The command line: `--version` prints; `--run-healthcheck` reads the lock file of
  `Lifecycle` in another process.
- Several requests at a time in one runner: runs share nothing but the transport's
  idle connections, which `HTTPRun` has as a number, and their interplay with
  limiter and instrumentation is `RequestPath`'s.

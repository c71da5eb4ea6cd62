----------------------------- MODULE Lifecycle -----------------------------
(***************************************************************************)
(* The life of the watchdog process: Watchdog.Start, listenUntilShutdown,  *)
(* the goroutines they spawn, the lock file, the health endpoint and the   *)
(* end of the process (pkg/watchdog.go, metrics/metrics.go, main.go).      *)
(*                                                                         *)
(* Four goroutines run concurrently:                                       *)
(*   main     builds the handlers, spawns the others, writes the lock file *)
(*            and waits on the channel idleConnsClosed;                    *)
(*   signal   waits for SIGTERM or the context, marks the process          *)
(*            unhealthy, waits healthcheck_interval, shuts the server down *)
(*            and closes idleConnsClosed;                                  *)
(*   serve    runs ListenAndServe and closes idleConnsClosed if it fails;  *)
(*   metrics  runs the metrics server and panics if it fails.              *)
(* Clients open connections and send requests; a probe calls /_/health.    *)
(* The modes that fork per request, static and inproc are covered; the     *)
(* child process of mode=http, which handles SIGTERM too, is not here.     *)
(***************************************************************************)
EXTENDS Integers, FiniteSets

CONSTANTS
  Clients,      \* client connections
  Configs,      \* the configurations the process may be started with
  InitialLock   \* whether an earlier process may have left /tmp/.lock behind

\* The system calls that may fail.
Fault == {"auth", "lock", "remove", "bind", "accept", "metrics"}

\* samePort: TCPPort = MetricsPort.  faults: the calls that may fail in this run.
Config == [suppressLock : BOOLEAN, healthcheckInterval : Int, samePort : BOOLEAN,
           jwtAuth : BOOLEAN, faults : SUBSET Fault]

ASSUME LifecycleAssumption ==
  /\ Configs \subseteq Config
  /\ InitialLock \subseteq BOOLEAN

VARIABLES
  cfg,                   \* w.config; chosen at start, never changed
  mainPc, sigPc, servePc, metricsPc,   \* where the goroutines are
  exit,                  \* how the process ended
  acceptingConnections,  \* the package's atomic flag
  lockFile,              \* /tmp/.lock exists
  idleConnsClosed,       \* the channel is closed
  sigChan,               \* the channel sig holds a SIGTERM
  ctxDone,               \* shutdownCtx is cancelled
  inShutdown,            \* http.Server: Shutdown has been called
  shutdownResult,        \* what Shutdown returned
  conn,                  \* http.Server: the state of each connection
  probePc, health,       \* the health handler and its last answer
  earlyStop              \* history: shutdown began before main had stored 1

goroutines == <<mainPc, sigPc, servePc, metricsPc>>
healthState == <<acceptingConnections, lockFile>>
stopRequests == <<sigChan, ctxDone>>
server == <<inShutdown, shutdownResult, conn>>
probe == <<probePc, health>>
vars == <<cfg, goroutines, exit, healthState, idleConnsClosed, stopRequests,
          server, probe, earlyStop>>

Running == mainPc # "exited"

\* The process ends: every other goroutine stops where it is.
Exit(how) ==
  /\ mainPc' = "exited"
  /\ exit' = how
  /\ UNCHANGED <<cfg, sigPc, servePc, idleConnsClosed, healthState, stopRequests,
                 server, probe, earlyStop>>

Init ==
  /\ cfg \in Configs
  /\ mainPc = "start"
  /\ sigPc = "none"
  /\ servePc = "none"
  /\ metricsPc = "none"
  /\ exit = "none"
  /\ acceptingConnections = 0
  /\ lockFile \in InitialLock
  /\ idleConnsClosed = FALSE
  /\ sigChan = FALSE
  /\ ctxDone = FALSE
  /\ inShutdown = FALSE
  /\ shutdownResult = "none"
  /\ conn = [c \in Clients |-> "closed"]
  /\ probePc = "idle"
  /\ health = "none"
  /\ earlyStop = FALSE

(***************************************************************************)
(* The main goroutine                                                      *)
(***************************************************************************)
\* Mutated form of BuildHandlers: the flag starts at 1.
BuildHandlersAccepting ==
  /\ mainPc = "start"
  /\ acceptingConnections' = 1
  /\ mainPc' = "auth"
  /\ UNCHANGED <<cfg, sigPc, servePc, metricsPc, exit, lockFile, idleConnsClosed,
                 stopRequests, server, probe, earlyStop>>

BuildHandlers ==
  /\ mainPc = "start"
  /\ acceptingConnections' = 0
  /\ mainPc' = "auth"
  /\ UNCHANGED <<cfg, sigPc, servePc, metricsPc, exit, lockFile, idleConnsClosed,
                 stopRequests, server, probe, earlyStop>>

\* With jwt_auth, an error makes Start return it and main exit with status 1.
MakeJWTAuthHandler ==
  /\ mainPc = "auth"
  /\ \/ /\ mainPc' = "metrics"
        /\ UNCHANGED <<cfg, sigPc, servePc, exit, healthState, idleConnsClosed,
                       stopRequests, server, probe, earlyStop>>
     \/ /\ cfg.jwtAuth /\ "auth" \in cfg.faults
        /\ Exit("authError")
  /\ UNCHANGED metricsPc

\* go metricsServer.Serve(cancel); nothing is ever sent on cancel.
StartMetrics ==
  /\ mainPc = "metrics"
  /\ metricsPc' = "spawned"
  /\ mainPc' = "listen"
  /\ UNCHANGED <<cfg, sigPc, servePc, exit, healthState, idleConnsClosed,
                 stopRequests, server, probe, earlyStop>>

\* The two go statements of listenUntilShutdown.
SpawnGoroutines ==
  /\ mainPc = "listen"
  /\ sigPc' = "spawned"
  /\ servePc' = "spawned"
  /\ mainPc' = IF cfg.suppressLock THEN "accept" ELSE "lock"
  /\ UNCHANGED <<cfg, metricsPc, exit, healthState, idleConnsClosed,
                 stopRequests, server, probe, earlyStop>>

\* createLockFile up to WriteFile.  listenUntilShutdown returns the error, Start
\* drops it and returns nil, and main returns: exit status 0.
WriteLockFile ==
  /\ mainPc = "lock"
  /\ \/ /\ lockFile' = TRUE
        /\ mainPc' = "accept"
        /\ UNCHANGED <<cfg, sigPc, servePc, exit, acceptingConnections,
                       idleConnsClosed, stopRequests, server, probe, earlyStop>>
     \/ /\ "lock" \in cfg.faults
        /\ Exit("lockError")
  /\ UNCHANGED metricsPc

AcceptConnections ==
  /\ mainPc = "accept"
  /\ acceptingConnections' = 1
  /\ mainPc' = "waiting"
  /\ UNCHANGED <<cfg, sigPc, servePc, metricsPc, exit, lockFile, idleConnsClosed,
                 stopRequests, server, probe, earlyStop>>

\* Mutated form of ReturnFromStart: main does not wait for the channel.
ReturnFromStartAtOnce ==
  /\ mainPc = "waiting"
  /\ Exit("return")
  /\ UNCHANGED metricsPc

ReturnFromStart ==
  /\ mainPc = "waiting"
  /\ idleConnsClosed
  /\ Exit("return")
  /\ UNCHANGED metricsPc

(***************************************************************************)
(* The signal goroutine                                                    *)
(***************************************************************************)
Notify ==
  /\ Running
  /\ sigPc = "spawned"
  /\ sigPc' = "select"
  /\ UNCHANGED <<cfg, mainPc, servePc, metricsPc, exit, healthState,
                 idleConnsClosed, stopRequests, server, probe, earlyStop>>

\* The select: a ready case is chosen, and receiving empties the channel.
AwaitStop ==
  /\ Running
  /\ sigPc = "select"
  /\ \/ sigChan /\ sigChan' = FALSE
     \/ ctxDone /\ UNCHANGED sigChan
  /\ sigPc' = "mark"
  /\ UNCHANGED <<cfg, mainPc, servePc, metricsPc, exit, healthState,
                 idleConnsClosed, ctxDone, server, probe, earlyStop>>

\* Mutated form of StopAccepting: an AddInt32 of -1 in place of the store.
StopAcceptingByDecrement ==
  /\ Running
  /\ sigPc = "mark"
  /\ acceptingConnections' = acceptingConnections - 1
  /\ earlyStop' = (mainPc # "waiting")
  /\ sigPc' = "remove"
  /\ UNCHANGED <<cfg, mainPc, servePc, metricsPc, exit, lockFile,
                 idleConnsClosed, stopRequests, server, probe>>

\* Mutated form of StopAccepting: only the lock file is removed.
StopAcceptingWithoutStore ==
  /\ Running
  /\ sigPc = "mark"
  /\ earlyStop' = (mainPc # "waiting")
  /\ sigPc' = "remove"
  /\ UNCHANGED <<cfg, mainPc, servePc, metricsPc, exit, healthState,
                 idleConnsClosed, stopRequests, server, probe>>

\* markUnhealthy: the store ...
StopAccepting ==
  /\ Running
  /\ sigPc = "mark"
  /\ acceptingConnections' = 0
  /\ earlyStop' = (mainPc # "waiting")
  /\ sigPc' = "remove"
  /\ UNCHANGED <<cfg, mainPc, servePc, metricsPc, exit, lockFile,
                 idleConnsClosed, stopRequests, server, probe>>

\* ... and the removal, whose error is only logged.
RemoveLockFile ==
  /\ Running
  /\ sigPc = "remove"
  /\ \/ lockFile' = FALSE
     \/ "remove" \in cfg.faults /\ UNCHANGED lockFile
  /\ sigPc' = "tick"
  /\ UNCHANGED <<cfg, mainPc, servePc, metricsPc, exit, acceptingConnections,
                 idleConnsClosed, stopRequests, server, probe, earlyStop>>

\* time.Tick returns a nil channel, on which a receive blocks for ever, unless
\* the interval is positive.  After the tick Shutdown closes the listener.
WaitIntervalThenShutdown ==
  /\ Running
  /\ sigPc = "tick"
  /\ cfg.healthcheckInterval > 0
  /\ inShutdown' = TRUE
  /\ sigPc' = "draining"
  /\ UNCHANGED <<cfg, mainPc, servePc, metricsPc, exit, healthState,
                 idleConnsClosed, stopRequests, shutdownResult, conn, probe, earlyStop>>

\* Shutdown waits for Serve to return, then polls: idle connections are closed,
\* and it returns nil once none is left.
ShutdownPoll ==
  /\ Running
  /\ sigPc = "draining"
  /\ servePc # "listening"
  /\ conn' = [c \in Clients |-> IF conn[c] = "idle" THEN "closed" ELSE conn[c]]
  /\ IF probePc = "idle" /\ \A c \in Clients : conn[c] # "active"
     THEN sigPc' = "closing" /\ shutdownResult' = "nil"
     ELSE UNCHANGED <<sigPc, shutdownResult>>
  /\ UNCHANGED <<cfg, mainPc, servePc, metricsPc, exit, healthState,
                 idleConnsClosed, stopRequests, inShutdown, probe, earlyStop>>

\* Mutated form of ShutdownTimeout: Shutdown is given context.Background().
ShutdownNeverTimesOut == FALSE

\* The context given to Shutdown expires after writeTimeout.
ShutdownTimeout ==
  /\ Running
  /\ sigPc = "draining"
  /\ shutdownResult' = "timeout"
  /\ sigPc' = "closing"
  /\ UNCHANGED <<cfg, mainPc, servePc, metricsPc, exit, healthState,
                 idleConnsClosed, stopRequests, inShutdown, conn, probe, earlyStop>>

\* close(idleConnsClosed); closing a closed channel panics.
SignalClosesChannel ==
  /\ Running
  /\ sigPc = "closing"
  /\ \/ /\ ~idleConnsClosed
        /\ idleConnsClosed' = TRUE
        /\ sigPc' = "done"
        /\ UNCHANGED <<cfg, mainPc, servePc, exit, healthState, stopRequests,
                       server, probe, earlyStop>>
     \/ idleConnsClosed /\ Exit("panicClose")
  /\ UNCHANGED metricsPc

(***************************************************************************)
(* The serve goroutine and the metrics server                              *)
(***************************************************************************)
\* net.Listen, refused when the metrics server holds the port.
ListenAndServe ==
  /\ Running
  /\ servePc = "spawned"
  /\ \/ inShutdown /\ servePc' = "closed"
     \/ /\ ~inShutdown
        /\ ~(cfg.samePort /\ metricsPc = "listening")
        /\ servePc' = "listening"
     \/ /\ ~inShutdown
        /\ "bind" \in cfg.faults \/ (cfg.samePort /\ metricsPc = "listening")
        /\ servePc' = "failed"
  /\ UNCHANGED <<cfg, mainPc, sigPc, metricsPc, exit, healthState,
                 idleConnsClosed, stopRequests, server, probe, earlyStop>>

\* Mutated form of ServeReturns: the channel is closed on ErrServerClosed too.
ServeReturnsAlwaysCloses ==
  /\ Running
  /\ servePc = "listening"
  /\ \/ inShutdown /\ servePc' = "closed" /\ idleConnsClosed' = TRUE
     \/ /\ ~inShutdown /\ "accept" \in cfg.faults
        /\ servePc' = "failed" /\ UNCHANGED idleConnsClosed
  /\ UNCHANGED <<cfg, mainPc, sigPc, metricsPc, exit, healthState,
                 stopRequests, server, probe, earlyStop>>

\* The accept loop ends: ErrServerClosed after Shutdown, any other error before.
ServeReturns ==
  /\ Running
  /\ servePc = "listening"
  /\ \/ inShutdown /\ servePc' = "closed"
     \/ ~inShutdown /\ "accept" \in cfg.faults /\ servePc' = "failed"
  /\ UNCHANGED <<cfg, mainPc, sigPc, metricsPc, exit, healthState,
                 idleConnsClosed, stopRequests, server, probe, earlyStop>>

\* Only an error other than ErrServerClosed closes the channel.
ServeClosesChannel ==
  /\ Running
  /\ servePc = "failed"
  /\ \/ /\ ~idleConnsClosed
        /\ idleConnsClosed' = TRUE
        /\ servePc' = "broken"
        /\ UNCHANGED <<cfg, mainPc, sigPc, exit, healthState, stopRequests,
                       server, probe, earlyStop>>
     \/ idleConnsClosed /\ Exit("panicClose")
  /\ UNCHANGED metricsPc

MetricsListenAndServe ==
  /\ Running
  /\ metricsPc = "spawned"
  /\ ~(cfg.samePort /\ servePc = "listening" /\ ~inShutdown)
  /\ metricsPc' = "listening"
  /\ UNCHANGED <<cfg, mainPc, sigPc, servePc, exit, healthState,
                 idleConnsClosed, stopRequests, server, probe, earlyStop>>

\* Any error of the metrics server is a panic, which ends the process.
MetricsPanic ==
  /\ Running
  /\ metricsPc \in {"spawned", "listening"}
  /\ \/ "metrics" \in cfg.faults
     \/ /\ metricsPc = "spawned"
        /\ cfg.samePort /\ servePc = "listening" /\ ~inShutdown
  /\ metricsPc' = "failed"
  /\ Exit("panicMetrics")

(***************************************************************************)
(* The environment: stop requests, clients and the health probe            *)
(***************************************************************************)
\* Before Notify the default action of SIGTERM ends the process; afterwards the
\* signal is buffered in a channel of capacity 1, or dropped if it is full.
SendSIGTERM ==
  /\ Running
  /\ \/ sigPc \in {"none", "spawned"} /\ Exit("killed")
     \/ /\ sigPc \notin {"none", "spawned"}
        /\ sigChan' = TRUE
        /\ UNCHANGED <<cfg, mainPc, sigPc, servePc, exit, healthState,
                       idleConnsClosed, ctxDone, server, probe, earlyStop>>
  /\ UNCHANGED metricsPc

\* main never cancels before Start returns; a program that embeds Watchdog may.
CancelContext ==
  /\ Running
  /\ ctxDone' = TRUE
  /\ UNCHANGED <<cfg, goroutines, exit, healthState, idleConnsClosed, sigChan,
                 server, probe, earlyStop>>

SetConn(c, state) ==
  /\ conn' = [conn EXCEPT ![c] = state]
  /\ UNCHANGED <<cfg, goroutines, exit, healthState, idleConnsClosed,
                 stopRequests, inShutdown, shutdownResult, probe, earlyStop>>

Connect(c) ==
  /\ Running
  /\ servePc = "listening" /\ ~inShutdown
  /\ conn[c] = "closed"
  /\ SetConn(c, "idle")

Request(c) ==
  /\ Running
  /\ conn[c] = "idle"
  /\ SetConn(c, "active")

\* Keep-alive, except that a server being shut down closes the connection.
Respond(c) ==
  /\ Running
  /\ conn[c] = "active"
  /\ SetConn(c, IF inShutdown THEN "closed" ELSE "idle")

Disconnect(c) ==
  /\ Running
  /\ conn[c] = "idle"
  /\ SetConn(c, "closed")

\* GET /_/health: the flag is loaded first ...
ProbeLoadsFlag ==
  /\ Running
  /\ servePc = "listening" /\ ~inShutdown
  /\ probePc = "idle"
  /\ IF acceptingConnections = 0
     THEN health' = "unavailable" /\ UNCHANGED probePc
     ELSE probePc' = "stat" /\ UNCHANGED health
  /\ UNCHANGED <<cfg, goroutines, exit, healthState, idleConnsClosed,
                 stopRequests, server, earlyStop>>

\* ... and the lock file is looked for only if the flag was 1.
ProbeStatsLock ==
  /\ Running
  /\ probePc = "stat"
  /\ health' = IF lockFile THEN "ok" ELSE "unavailable"
  /\ probePc' = "idle"
  /\ UNCHANGED <<cfg, goroutines, exit, healthState, idleConnsClosed,
                 stopRequests, server, earlyStop>>

Terminated == ~Running /\ UNCHANGED vars

MainStep ==
  \/ BuildHandlers \/ MakeJWTAuthHandler \/ StartMetrics \/ SpawnGoroutines
  \/ WriteLockFile \/ AcceptConnections \/ ReturnFromStart

SignalStep ==
  \/ Notify \/ AwaitStop \/ StopAccepting \/ RemoveLockFile
  \/ WaitIntervalThenShutdown \/ ShutdownPoll \/ ShutdownTimeout
  \/ SignalClosesChannel

ServeStep == ListenAndServe \/ ServeReturns \/ ServeClosesChannel

Environment ==
  \/ SendSIGTERM \/ CancelContext \/ ProbeLoadsFlag \/ ProbeStatsLock
  \/ \E c \in Clients : Connect(c)
  \/ \E c \in Clients : Request(c)
  \/ \E c \in Clients : Respond(c)
  \/ \E c \in Clients : Disconnect(c)

Next ==
  \/ MainStep \/ SignalStep \/ ServeStep
  \/ MetricsListenAndServe \/ MetricsPanic
  \/ Environment \/ Terminated

\* The Go scheduler runs every runnable goroutine and timers fire.  Nothing is
\* assumed of clients, probes, signals or faults.
Fairness == WF_vars(MainStep) /\ WF_vars(SignalStep)

Spec == Init /\ [][Next]_vars /\ Fairness

---------------------------------------------------------------------------
(***************************************************************************)
(* Properties                                                              *)
(***************************************************************************)
MainPcs == {"start", "auth", "metrics", "listen", "lock", "accept", "waiting",
            "exited"}

SignalPcs == {"none", "spawned", "select", "mark", "remove", "tick", "draining",
              "closing", "done"}

ServePcs == {"none", "spawned", "listening", "closed", "failed", "broken"}

Exits == {"none", "return", "authError", "lockError", "panicClose",
          "panicMetrics", "killed"}

\* Type invariant.
TypeOK ==
  /\ cfg \in Configs
  /\ mainPc \in MainPcs
  /\ sigPc \in SignalPcs
  /\ servePc \in ServePcs
  /\ metricsPc \in {"none", "spawned", "listening", "failed"}
  /\ exit \in Exits
  /\ acceptingConnections \in {0, 1}
  /\ lockFile \in BOOLEAN
  /\ idleConnsClosed \in BOOLEAN
  /\ sigChan \in BOOLEAN
  /\ ctxDone \in BOOLEAN
  /\ inShutdown \in BOOLEAN
  /\ shutdownResult \in {"none", "nil", "timeout"}
  /\ conn \in [Clients -> {"closed", "idle", "active"}]
  /\ probePc \in {"idle", "stat"}
  /\ health \in {"none", "ok", "unavailable"}
  /\ earlyStop \in BOOLEAN

ServeFailed == servePc \in {"failed", "broken"}

StopPending == sigChan \/ ctxDone \/ sigPc \notin {"none", "spawned", "select"}

\* markUnhealthy has returned.
MarkedUnhealthy == sigPc \in {"tick", "draining", "closing", "done"}

\* Unless the listener failed, Start does not return while a request it accepted
\* is still being handled, except when Shutdown ran into its write_timeout.
DrainedBeforeReturn ==
  exit = "return" /\ ~ServeFailed /\ shutdownResult # "timeout"
    => \A c \in Clients : conn[c] # "active"

\* A shutdown that begins after the service became ready leaves it unhealthy for
\* good: the flag is 0 and, unless os.Remove failed, the lock file is gone for
\* the whole of the drain.
UnhealthyWhileDraining ==
  MarkedUnhealthy /\ ~earlyStop
    => acceptingConnections = 0 /\ (lockFile => "remove" \in cfg.faults)

\* idleConnsClosed has two goroutines that close it.  They collide only when the
\* listener failed and Shutdown returned as well.
DoubleCloseNeedsFailedListener ==
  exit = "panicClose" => ServeFailed /\ shutdownResult # "none"

\* With a lock file in use, a ready service that nobody has asked to stop never
\* answers a health probe with 503.
LockedServiceIsHealthy ==
  [][ProbeStatsLock /\ ~cfg.suppressLock /\ ~StopPending => health' = "ok"]_vars

\* Nobody asked and nothing failed: then the process runs.  The metrics server on
\* the function server's port is a failure, of whichever binds second.
EndsOnlyForCause ==
  ~Running /\ ~StopPending => exit = "killed" \/ cfg.samePort \/ cfg.faults # {}

\* A stop request ends the process, whatever clients do, provided the interval
\* is positive.
StopEndsProcess ==
  (sigChan \/ ctxDone) /\ cfg.healthcheckInterval > 0 ~> ~Running

\* The phase of the service, its requests in progress and how it ended.
Phase ==
  IF ~Running THEN "stopped"
  ELSE IF inShutdown THEN "draining"
  ELSE IF servePc \in {"none", "spawned"} THEN "starting" ELSE "serving"

Active == {c \in Clients : conn[c] = "active"}

Outcome ==
  IF exit = "none" THEN "none"
  ELSE IF exit = "return" /\ shutdownResult = "nil" THEN "clean"
  ELSE IF exit = "return" /\ shutdownResult = "timeout" THEN "timedOut"
  ELSE "failed"

Server == INSTANCE GracefulServer WITH
  phase <- Phase, active <- Active, outcome <- Outcome

\* The process is a GracefulServer: requests begin only while it serves or
\* drains, a drain always ends, and a clean end means that no request was cut.
RefinesGracefulServer == Server!Spec

(***************************************************************************)
(* What a comment says and the code does not keep: the property of a run   *)
(* that expects a violation.                                               *)
(***************************************************************************)
\* acceptingConnections: "0 means that the service is shutting down or
\* unavailable"; markUnhealthy sets it to 0 on shutdown.
StoppingIsUnhealthy == MarkedUnhealthy => acceptingConnections = 0

=============================================================================

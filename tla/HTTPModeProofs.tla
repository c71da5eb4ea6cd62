--------------------------- MODULE HTTPModeProofs ---------------------------
(***************************************************************************)
(* Proofs about HTTPMode for any set of clients and configurations: what   *)
(* LifecycleProofs says of the process stays true when the goroutines of   *)
(* HTTPFunctionRunner share its SIGTERM and may end it under its feet.     *)
(*                                                                         *)
(* Every step of mode=http is a step of Lifecycle, a stutter of it, or the *)
(* death of the process by the runner (ProcessStep).  So LifecycleInv      *)
(* holds until such a death, and after it nothing moves.                   *)
(***************************************************************************)
EXTENDS HTTPMode, LifecycleProofs

\* The ways in which the runner ends the process.
Deaths == {"panicForward", "childFailed", "panicLog"}

\* The runner's goroutines and history; the handlers are built only when Start has
\* returned.
RunnerInv ==
  /\ startPc \in {"none", "forked", "returned"}
  /\ startPc # "returned" => mainPc \in {"start", "exited"} /\ sigPc = "none"
  /\ child \in {"none", "unstarted", "running", "exitedZero", "exitedNonzero"}
  /\ fwdPc \in {"none", "spawned", "waiting", "done"} /\ fwdChan \in BOOLEAN
  /\ waitPc \in {"none", "waiting", "done"}
  /\ stderrPipe \in {"none", "open", "nil"}
  /\ signalled \in BOOLEAN /\ asked \subseteq {"forwarder", "signal"}

\* The process is that of Lifecycle until the runner has ended it.  What a drain
\* left behind stays so.
ProcessInv ==
  /\ exit \notin Deaths => LifecycleInv
  /\ exit \in Deaths => ~Running /\ cfg \in Configs /\ UnhealthyWhileDraining

ModeInv == RunnerInv /\ ProcessInv

\* Of a process that is gone nothing changes.
LEMMA NothingAfterEnd == ~Running /\ [Next]_vars => UNCHANGED vars
<1> SUFFICES ASSUME ~Running, [Next]_vars PROVE UNCHANGED vars
  OBVIOUS
<1> USE DEF Running
<1>1. ~MainStep
  BY DEF MainStep, BuildHandlers, MakeJWTAuthHandler, StartMetrics, SpawnGoroutines,
     WriteLockFile, AcceptConnections, ReturnFromStart
<1>2. ~SignalStep
  BY DEF SignalStep, Notify, AwaitStop, StopAccepting, RemoveLockFile,
     WaitIntervalThenShutdown, ShutdownPoll, ShutdownTimeout, SignalClosesChannel
<1>3. ~ServeStep /\ ~MetricsListenAndServe /\ ~MetricsPanic
  BY DEF ServeStep, ListenAndServe, ServeReturns, ServeClosesChannel,
     MetricsListenAndServe, MetricsPanic
<1>4. ~Environment
  BY DEF Environment, SendSIGTERM, CancelContext, ProbeLoadsFlag, ProbeStatsLock,
     Connect, Request, Respond, Disconnect
<1>5. QED
  BY <1>1, <1>2, <1>3, <1>4 DEF Next, Terminated

\* A step of mode=http is a step of the process, or the runner ends the process.
LEMMA ProcessStep ==
  ASSUME ProcessInv, [HTTPNext]_httpVars
  PROVE  [Next]_vars \/ (Running /\ \E how \in Deaths : Die(how))
<1>1. CASE ReturnEarly \/ SpawnForwarder \/ StartChild \/ ForwarderNotify \/ ChildExits
           \/ UNCHANGED httpVars
  BY <1>1 DEF ReturnEarly, SpawnForwarder, StartChild, ForwarderNotify, ChildExits, httpVars
<1>2. CASE MainStep \/ SignalStep \/ Others
  BY <1>2 DEF Others, Next, Environment
<1>3. CASE ForwardSIGTERM
  <2>1. Running /\ (Die("panicForward") \/ UNCHANGED vars)
    BY <1>3 DEF ForwardSIGTERM
  <2>2. QED
    BY <2>1 DEF Deaths
<1>4. CASE WaitChild
  <2>1. Running /\ (Die("childFailed") \/ UNCHANGED vars)
    BY <1>4 DEF WaitChild
  <2>2. QED
    BY <2>1 DEF Deaths
<1>5. CASE DeliverSIGTERM
  <2>1. Running /\ sigChan \in BOOLEAN
    BY <1>5 DEF DeliverSIGTERM, ProcessInv, LifecycleInv, TypeOK
  <2>2. "signal" \in Listeners <=> sigPc \notin {"none", "spawned"}
    BY DEF Listeners
  <2>3. CASE Listeners = {}
    <3>1. Die("killed") /\ sigPc \in {"none", "spawned"}
      BY <1>5, <2>2, <2>3 DEF DeliverSIGTERM
    <3>2. SendSIGTERM
      BY <2>1, <3>1 DEF SendSIGTERM, Die
    <3>3. QED
      BY <3>2 DEF Next, Environment
  <2>4. CASE Listeners # {}
    <3>1. /\ sigChan' = (sigChan \/ "signal" \in Listeners)
          /\ UNCHANGED <<cfg, goroutines, exit, healthState, idleConnsClosed, ctxDone,
                         server, probe, earlyStop>>
      BY <1>5, <2>4, Zenon DEF DeliverSIGTERM
    <3>2. CASE "signal" \in Listeners
      <4>1. sigChan' = TRUE
        BY <3>1, <3>2, Zenon
      <4>2. SendSIGTERM
        BY <2>1, <2>2, <3>1, <3>2, <4>1 DEF SendSIGTERM, goroutines
      <4>3. QED
        BY <4>2 DEF Next, Environment
    <3>3. CASE "signal" \notin Listeners
      <4>1. sigChan' = sigChan
        BY <2>1, <3>1, <3>3, Zenon
      <4>2. QED
        BY <3>1, <4>1 DEF vars, stopRequests
    <3>4. QED
      BY <3>2, <3>3
  <2>5. QED
    BY <2>3, <2>4
<1>6. CASE LogReaderPanics
  BY <1>6 DEF LogReaderPanics, Deaths
<1>7. QED
  BY <1>1, <1>2, <1>3, <1>4, <1>5, <1>6
  DEF HTTPNext, HTTPMainStep, HTTPSignalStep, Forwarder

LEMMA ProcessKept == ProcessInv /\ [HTTPNext]_httpVars => ProcessInv'
<1> SUFFICES ASSUME ProcessInv, [HTTPNext]_httpVars PROVE ProcessInv'
  OBVIOUS
<1>1. CASE exit \notin Deaths /\ [Next]_vars
  <2>1. LifecycleInv'
    BY <1>1, LifecycleStep DEF ProcessInv
  <2>2. exit' \notin Deaths
    BY <2>1 DEF LifecycleInv, TypeOK, Exits, Deaths
  <2>3. QED
    BY <2>1, <2>2 DEF ProcessInv
<1>2. CASE exit \in Deaths /\ [Next]_vars
  <2>1. UNCHANGED vars
    BY <1>2, NothingAfterEnd DEF ProcessInv
  <2>2. UNCHANGED <<cfg, exit, mainPc, sigPc, acceptingConnections, lockFile, earlyStop>>
    BY <2>1 DEF vars, goroutines, healthState
  <2>3. QED
    BY <1>2, <2>2 DEF ProcessInv, Running, UnhealthyWhileDraining, MarkedUnhealthy
<1>3. ASSUME Running, NEW how \in Deaths, Die(how) PROVE ProcessInv'
  <2>1. LifecycleInv
    BY <1>3 DEF ProcessInv
  <2>2. /\ exit' = how /\ mainPc' = "exited"
        /\ UNCHANGED <<cfg, sigPc, acceptingConnections, lockFile, earlyStop>>
    BY <1>3 DEF Die, Exit, healthState
  <2>3. cfg \in Configs /\ UnhealthyWhileDraining
    BY <2>1 DEF LifecycleInv, TypeOK
  <2>4. UnhealthyWhileDraining'
    BY <2>2, <2>3 DEF UnhealthyWhileDraining, MarkedUnhealthy
  <2>5. QED
    BY <1>3, <2>2, <2>3, <2>4 DEF ProcessInv, Running
<1>4. QED
  BY <1>1, <1>2, <1>3, ProcessStep

\* The runner's goroutines keep to their states, and main stays in the building of
\* the handlers until HTTPFunctionRunner.Start has returned.
LEMMA RunnerKept == RunnerInv /\ [HTTPNext]_httpVars => RunnerInv'
<1> SUFFICES ASSUME RunnerInv, [HTTPNext]_httpVars PROVE RunnerInv'
  OBVIOUS
<1> USE DEF RunnerInv
<1>1. CASE ReturnEarly \/ SpawnForwarder
  BY <1>1 DEF ReturnEarly, SpawnForwarder, vars, goroutines
<1>2. CASE StartChild
  BY <1>2 DEF StartChild, Waiter
<1>3. CASE BuildsHandlers /\ MainStep /\ UNCHANGED runner
  BY <1>3 DEF BuildsHandlers, runner
<1>4. CASE HTTPSignalStep
  <2>1. sigPc # "none" /\ UNCHANGED runner
    BY <1>4 DEF HTTPSignalStep, SignalStep, Notify, AwaitStop, StopAccepting,
       RemoveLockFile, WaitIntervalThenShutdown, ShutdownPoll, ShutdownTimeout,
       SignalClosesChannel
  <2>2. QED
    BY <2>1 DEF runner
<1>5. CASE ForwarderNotify \/ ChildExits
  BY <1>5 DEF ForwarderNotify, ChildExits, vars, goroutines
<1>6. CASE ForwardSIGTERM
  <2>1. /\ fwdPc' = "done" /\ fwdChan' = FALSE /\ signalled' \in BOOLEAN
        /\ UNCHANGED <<startPc, child, waitPc, stderrPipe, asked>>
    BY <1>6 DEF ForwardSIGTERM, Forward
  <2>2. UNCHANGED sigPc /\ (UNCHANGED mainPc \/ mainPc' = "exited")
    BY <1>6 DEF ForwardSIGTERM, Die, Exit, vars, goroutines
  <2>3. QED
    BY <2>1, <2>2
<1>7. CASE WaitChild
  <2>1. /\ waitPc' = "done"
        /\ UNCHANGED <<startPc, child, fwdPc, fwdChan, stderrPipe, signalled, asked>>
    BY <1>7 DEF WaitChild
  <2>2. UNCHANGED sigPc /\ (UNCHANGED mainPc \/ mainPc' = "exited")
    BY <1>7 DEF WaitChild, Die, Exit, vars, goroutines
  <2>3. QED
    BY <2>1, <2>2
<1>8. CASE DeliverSIGTERM
  <2>1. UNCHANGED <<startPc, child, fwdPc, waitPc, stderrPipe, signalled>>
    BY <1>8 DEF DeliverSIGTERM
  <2>2. UNCHANGED sigPc /\ (UNCHANGED mainPc \/ mainPc' = "exited")
    BY <1>8 DEF DeliverSIGTERM, Die, Exit, goroutines
  <2>3. fwdChan' \in BOOLEAN
    BY <1>8, Zenon DEF DeliverSIGTERM
  <2>4. asked' \subseteq {"forwarder", "signal"}
    BY <1>8 DEF DeliverSIGTERM, Listeners
  <2>5. QED
    BY <2>1, <2>2, <2>3, <2>4
<1>9. CASE Others /\ UNCHANGED runner
  <2>1. UNCHANGED sigPc /\ (UNCHANGED mainPc \/ mainPc' = "exited")
    BY <1>9 DEF Others, ServeStep, ListenAndServe, ServeReturns, ServeClosesChannel,
       CancelContext, Terminated, Connect, Request, Respond, Disconnect, SetConn, Exit,
       vars, goroutines
  <2>2. QED
    BY <1>9, <2>1 DEF runner
<1>10. CASE UNCHANGED httpVars
  BY <1>10 DEF httpVars, vars, goroutines, runner
<1>11. CASE LogReaderPanics
  <2>1. UNCHANGED sigPc /\ (UNCHANGED mainPc \/ mainPc' = "exited") /\ UNCHANGED runner
    BY <1>11 DEF LogReaderPanics, Die, Exit, goroutines
  <2>2. QED
    BY <2>1 DEF runner
<1>12. QED
  BY <1>1, <1>2, <1>3, <1>4, <1>5, <1>6, <1>7, <1>8, <1>9, <1>10, <1>11
  DEF HTTPNext, HTTPMainStep, Forwarder

LEMMA ModeInvariance == HTTPSpec => []ModeInv
<1>1. HTTPInit => ModeInv
  <2> SUFFICES ASSUME HTTPInit PROVE ModeInv
    OBVIOUS
  <2>1. RunnerInv
    BY DEF HTTPInit, Init, RunnerInv
  <2>2. ProcessInv
    BY LifecycleInit DEF HTTPInit, Init, ProcessInv, Deaths
  <2>3. QED
    BY <2>1, <2>2 DEF ModeInv
<1>2. ModeInv /\ [HTTPNext]_httpVars => ModeInv'
  BY RunnerKept, ProcessKept DEF ModeInv
<1>3. QED
  BY <1>1, <1>2, PTL DEF HTTPSpec

\* The process and the runner's goroutines stay well formed, and main goes on only
\* when HTTPFunctionRunner.Start has returned.
THEOREM ModeTypeCorrect == HTTPSpec => []HTTPTypeOK
<1>1. ModeInv => HTTPTypeOK
  <2> SUFFICES ASSUME ModeInv PROVE HTTPTypeOK
    OBVIOUS
  <2>1. cfg \in Configs /\ exit \in Exits \cup Deaths
    BY DEF ModeInv, ProcessInv, LifecycleInv, TypeOK
  <2>2. QED
    BY <2>1 DEF ModeInv, RunnerInv, HTTPTypeOK, Deaths
<1>2. QED
  BY <1>1, ModeInvariance, PTL

\* Start returns in mode=http, too, with no request in progress unless Shutdown
\* timed out: the runner's goroutines never make it return.
THEOREM ModeDrained == HTTPSpec => []DrainedBeforeReturn
<1>1. ModeInv => DrainedBeforeReturn
  <2> SUFFICES ASSUME ModeInv, exit = "return", ~ServeFailed,
                      shutdownResult # "timeout",
                      NEW c \in Clients
               PROVE  conn[c] # "active"
    BY DEF DrainedBeforeReturn
  <2>1. LifecycleInv
    BY DEF ModeInv, ProcessInv, Deaths
  <2>2. sigPc = "done"
    BY <2>1 DEF LifecycleInv, ChannelInv, ServeFailed
  <2>3. shutdownResult = "nil"
    BY <2>1, <2>2 DEF LifecycleInv, ResultInv, TypeOK
  <2>4. QED
    BY <2>1, <2>3 DEF LifecycleInv, DrainInv
<1>2. QED
  BY <1>1, ModeInvariance, PTL

\* In mode=http, too, a shutdown that begins after the service was ready leaves it
\* unhealthy, even when the function's failure cuts the drain short.
THEOREM ModeUnhealthy == HTTPSpec => []UnhealthyWhileDraining
<1>1. ModeInv => UnhealthyWhileDraining
  BY DEF ModeInv, ProcessInv, LifecycleInv
<1>2. QED
  BY <1>1, ModeInvariance, PTL

\* Every behaviour of mode=http is a behaviour of GracefulServer, its liveness apart:
\* to a client, the death of the process by the runner is a server that stopped and
\* failed, never one that stopped cleanly.
THEOREM ModeImplementsGracefulServer ==
  HTTPSpec => Server!Init /\ [][Server!Next]_(Server!vars)
<1>1. HTTPInit => Server!Init
  BY DEF HTTPInit, Init, Server!Init, Phase, Active, Outcome, Running
<1>2. ModeInv /\ [HTTPNext]_httpVars => [Server!Next]_(Server!vars)
  <2> SUFFICES ASSUME ModeInv, [HTTPNext]_httpVars PROVE [Server!Next]_(Server!vars)
    OBVIOUS
  <2>1. ProcessInv
    BY DEF ModeInv
  <2>2. CASE exit \notin Deaths /\ [Next]_vars
    BY <2>1, <2>2, ServerStep DEF ProcessInv
  <2>3. CASE exit \in Deaths /\ [Next]_vars
    <3>1. UNCHANGED vars
      BY <2>1, <2>3, NothingAfterEnd DEF ProcessInv
    <3>2. UNCHANGED <<mainPc, servePc, exit, server>>
      BY <3>1 DEF vars, goroutines
    <3>3. QED
      BY <3>2 DEF Server!vars, Phase, Active, Outcome, Running, server
  <2>4. ASSUME Running, NEW how \in Deaths, Die(how) PROVE Server!Next
    <3>1. LifecycleInv /\ exit = "none"
      BY <2>1, <2>4 DEF ProcessInv, LifecycleInv, ExitInv
    <3>2. exit' = how /\ mainPc' = "exited" /\ UNCHANGED server
      BY <2>4 DEF Die, Exit
    <3>3. exit' \notin {"none", "return"}
      BY <2>4, <3>2 DEF Deaths
    <3>4. QED
      BY <2>4, <3>1, <3>2, <3>3, FailureStops
  <2>5. QED
    BY <2>1, <2>2, <2>3, <2>4, ProcessStep
<1>3. QED
  BY <1>1, <1>2, ModeInvariance, PTL DEF HTTPSpec

=============================================================================

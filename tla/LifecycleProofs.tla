-------------------------- MODULE LifecycleProofs --------------------------
(***************************************************************************)
(* Proofs of the safety properties of Lifecycle, for any set of clients    *)
(* and any set of configurations.                                          *)
(*                                                                         *)
(* None of the properties is inductive.  LifecycleInv adds what ties the   *)
(* goroutines together: who can have closed the channel, what Shutdown     *)
(* returned at each point of the signal goroutine, what a nil result means *)
(* for the connections, and how far main is when a stop is not early.      *)
(***************************************************************************)
EXTENDS Lifecycle, TLAPS

\* exit is set exactly when the process is gone.
ExitInv == exit = "none" <=> Running

\* The channel is closed by a failed listener or by a finished shutdown.
ChannelInv ==
  /\ idleConnsClosed => servePc = "broken" \/ sigPc = "done"
  /\ exit = "return" => idleConnsClosed

\* Shutdown has returned exactly when the signal goroutine is past it.
ResultInv ==
  /\ shutdownResult # "none" <=> sigPc \in {"closing", "done"}
  /\ sigPc \in {"draining", "closing", "done"} => inShutdown

\* After a nil result the server has no connection left and can get no other.
DrainInv ==
  shutdownResult = "nil" => inShutdown /\ \A c \in Clients : conn[c] = "closed"

\* If main was waiting when the flag was cleared, nobody sets it again.
ReadyInv ==
  (sigPc = "remove" \/ MarkedUnhealthy) /\ ~earlyStop
    => mainPc \in {"waiting", "exited"} /\ acceptingConnections = 0

\* The goroutines do not exist before listenUntilShutdown spawns them.
SpawnInv ==
  mainPc \in {"start", "auth", "metrics", "listen"}
    => sigPc = "none" /\ servePc = "none"

\* Connections exist only once the server has listened.
ConnInv ==
  servePc \in {"none", "spawned"} => \A c \in Clients : conn[c] = "closed"

LifecycleInv ==
  /\ TypeOK
  /\ ConnInv
  /\ SpawnInv
  /\ ExitInv
  /\ ChannelInv
  /\ ResultInv
  /\ DrainInv
  /\ ReadyInv
  /\ UnhealthyWhileDraining
  /\ DoubleCloseNeedsFailedListener

\* The lock file exists whenever a probe may look for it, until shutdown
\* removes it.
LockInv ==
  ~cfg.suppressLock /\ sigPc \in {"none", "spawned", "select", "mark", "remove"}
    => /\ mainPc = "accept" => lockFile
       /\ acceptingConnections = 1 => lockFile
       /\ probePc = "stat" => lockFile

\* Every step keeps the types.
LEMMA TypeStep == TypeOK /\ [Next]_vars => TypeOK'
<1> SUFFICES ASSUME TypeOK, [Next]_vars PROVE TypeOK'
  OBVIOUS
<1> USE DEF TypeOK, MainPcs, SignalPcs, ServePcs, Exits, goroutines,
       healthState, stopRequests, server, probe
<1>1. CASE BuildHandlers
  BY <1>1 DEF BuildHandlers
<1>2. CASE MakeJWTAuthHandler
  BY <1>2 DEF MakeJWTAuthHandler, Exit
<1>3. CASE StartMetrics
  BY <1>3 DEF StartMetrics
<1>4. CASE SpawnGoroutines
  BY <1>4 DEF SpawnGoroutines
<1>5. CASE WriteLockFile
  BY <1>5 DEF WriteLockFile, Exit
<1>6. CASE AcceptConnections
  BY <1>6 DEF AcceptConnections
<1>7. CASE ReturnFromStart
  BY <1>7 DEF ReturnFromStart, Exit
<1>8. CASE Notify
  BY <1>8 DEF Notify
<1>9. CASE AwaitStop
  <2>1. sigChan' \in BOOLEAN
    BY <1>9, Zenon DEF AwaitStop
  <2>2. QED
    BY <1>9, <2>1 DEF AwaitStop
<1>10. CASE StopAccepting
  BY <1>10 DEF StopAccepting
<1>11. CASE RemoveLockFile
  <2>1. lockFile' \in BOOLEAN
    BY <1>11, Zenon DEF RemoveLockFile
  <2>2. QED
    BY <1>11, <2>1 DEF RemoveLockFile
<1>12. CASE WaitIntervalThenShutdown
  BY <1>12 DEF WaitIntervalThenShutdown
<1>13. CASE ShutdownPoll
  BY <1>13 DEF ShutdownPoll
<1>14. CASE ShutdownTimeout
  BY <1>14 DEF ShutdownTimeout
<1>15. CASE SignalClosesChannel
  BY <1>15 DEF SignalClosesChannel, Exit
<1>16. CASE ListenAndServe
  BY <1>16 DEF ListenAndServe
<1>17. CASE ServeReturns
  BY <1>17 DEF ServeReturns
<1>18. CASE ServeClosesChannel
  BY <1>18 DEF ServeClosesChannel, Exit
<1>19. CASE MetricsListenAndServe
  BY <1>19 DEF MetricsListenAndServe
<1>20. CASE MetricsPanic
  BY <1>20 DEF MetricsPanic, Exit
<1>21. CASE SendSIGTERM
  <2>1. sigChan' \in BOOLEAN
    BY <1>21, Zenon DEF SendSIGTERM, Exit
  <2>2. QED
    BY <1>21, <2>1 DEF SendSIGTERM, Exit
<1>22. CASE CancelContext
  BY <1>22 DEF CancelContext
<1>23. CASE ProbeLoadsFlag
  BY <1>23 DEF ProbeLoadsFlag
<1>24. CASE ProbeStatsLock
  BY <1>24 DEF ProbeStatsLock
<1>25. ASSUME NEW c \in Clients, Connect(c) PROVE TypeOK'
  BY <1>25 DEF Connect, SetConn
<1>26. ASSUME NEW c \in Clients, Request(c) PROVE TypeOK'
  BY <1>26 DEF Request, SetConn
<1>27. ASSUME NEW c \in Clients, Respond(c) PROVE TypeOK'
  BY <1>27 DEF Respond, SetConn
<1>28. ASSUME NEW c \in Clients, Disconnect(c) PROVE TypeOK'
  BY <1>28 DEF Disconnect, SetConn
<1>29. CASE UNCHANGED vars
  BY <1>29 DEF vars
<1>30. QED
  BY <1>1, <1>2, <1>3, <1>4, <1>5, <1>6, <1>7, <1>8, <1>9, <1>10,
     <1>11, <1>12, <1>13, <1>14, <1>15, <1>16, <1>17, <1>18, <1>19,
     <1>20, <1>21, <1>22, <1>23, <1>24, <1>25, <1>26, <1>27, <1>28,
     <1>29
  DEF Next, MainStep, SignalStep, ServeStep, Environment, Terminated

\* Every step keeps the parts of the invariant that concern how the process
\* ends: the exit value, the channel, Shutdown's result and the connections.
LEMMA EndStep ==
  LifecycleInv /\ [Next]_vars
    => /\ SpawnInv' /\ ConnInv' /\ ExitInv' /\ ChannelInv' /\ ResultInv'
       /\ DrainInv' /\ DoubleCloseNeedsFailedListener'
<1> DEFINE End == SpawnInv /\ ConnInv /\ ExitInv /\ ChannelInv /\ ResultInv /\ DrainInv
                  /\ DoubleCloseNeedsFailedListener
<1> SUFFICES ASSUME LifecycleInv, [Next]_vars PROVE End'
  OBVIOUS
<1> USE DEF LifecycleInv, TypeOK, SpawnInv, ConnInv, ExitInv, ChannelInv, ResultInv, DrainInv,
       DoubleCloseNeedsFailedListener, ServeFailed, Running, goroutines,
       healthState, stopRequests, server, probe, SignalPcs, ServePcs
<1>1. CASE BuildHandlers
  BY <1>1 DEF BuildHandlers
<1>2. CASE MakeJWTAuthHandler
  BY <1>2 DEF MakeJWTAuthHandler, Exit
<1>3. CASE StartMetrics
  BY <1>3 DEF StartMetrics
<1>4. CASE SpawnGoroutines
  BY <1>4 DEF SpawnGoroutines
<1>5. CASE WriteLockFile
  BY <1>5 DEF WriteLockFile, Exit
<1>6. CASE AcceptConnections
  BY <1>6 DEF AcceptConnections
<1>7. CASE ReturnFromStart
  BY <1>7 DEF ReturnFromStart, Exit
<1>8. CASE Notify
  BY <1>8 DEF Notify
<1>9. CASE AwaitStop
  BY <1>9 DEF AwaitStop
<1>10. CASE StopAccepting
  BY <1>10 DEF StopAccepting
<1>11. CASE RemoveLockFile
  BY <1>11 DEF RemoveLockFile
<1>12. CASE WaitIntervalThenShutdown
  BY <1>12 DEF WaitIntervalThenShutdown
<1>13. CASE ShutdownPoll
  BY <1>13 DEF ShutdownPoll
<1>14. CASE ShutdownTimeout
  BY <1>14 DEF ShutdownTimeout
<1>15. CASE SignalClosesChannel
  <2>1. CASE idleConnsClosed
    <3>1. sigPc = "closing" /\ Exit("panicClose")
      BY <1>15, <2>1, Zenon DEF SignalClosesChannel
    <3>2. servePc = "broken" /\ shutdownResult # "none"
      BY <2>1, <3>1
    <3>3. QED
      BY <3>1, <3>2 DEF Exit
  <2>2. CASE ~idleConnsClosed
    <3>1. /\ sigPc = "closing" /\ sigPc' = "done" /\ idleConnsClosed'
          /\ UNCHANGED <<cfg, mainPc, servePc, exit, server>>
      BY <1>15, <2>2, Zenon DEF SignalClosesChannel
    <3>2. QED
      BY <2>2, <3>1
  <2>3. QED
    BY <2>1, <2>2
<1>16. CASE ListenAndServe
  BY <1>16 DEF ListenAndServe
<1>17. CASE ServeReturns
  BY <1>17 DEF ServeReturns
<1>18. CASE ServeClosesChannel
  BY <1>18 DEF ServeClosesChannel, Exit
<1>19. CASE MetricsListenAndServe
  BY <1>19 DEF MetricsListenAndServe
<1>20. CASE MetricsPanic
  BY <1>20 DEF MetricsPanic, Exit
<1>21. CASE SendSIGTERM
  BY <1>21 DEF SendSIGTERM, Exit
<1>22. CASE CancelContext
  BY <1>22 DEF CancelContext
<1>23. CASE ProbeLoadsFlag
  BY <1>23 DEF ProbeLoadsFlag
<1>24. CASE ProbeStatsLock
  BY <1>24 DEF ProbeStatsLock
<1>25. ASSUME NEW c \in Clients, Connect(c) PROVE End'
  BY <1>25 DEF Connect, SetConn
<1>26. ASSUME NEW c \in Clients, Request(c) PROVE End'
  BY <1>26 DEF Request, SetConn
<1>27. ASSUME NEW c \in Clients, Respond(c) PROVE End'
  BY <1>27 DEF Respond, SetConn
<1>28. ASSUME NEW c \in Clients, Disconnect(c) PROVE End'
  BY <1>28 DEF Disconnect, SetConn
<1>29. CASE UNCHANGED vars
  BY <1>29 DEF vars
<1>30. QED
  BY <1>1, <1>2, <1>3, <1>4, <1>5, <1>6, <1>7, <1>8, <1>9, <1>10,
     <1>11, <1>12, <1>13, <1>14, <1>15, <1>16, <1>17, <1>18, <1>19,
     <1>20, <1>21, <1>22, <1>23, <1>24, <1>25, <1>26, <1>27, <1>28,
     <1>29
  DEF Next, MainStep, SignalStep, ServeStep, Environment, Terminated

\* Every step keeps the flag and the lock file down once a shutdown that was not
\* early has brought them down.
LEMMA UnhealthyStep ==
  LifecycleInv /\ [Next]_vars => ReadyInv' /\ UnhealthyWhileDraining'
<1> DEFINE Down == ReadyInv /\ UnhealthyWhileDraining
<1> SUFFICES ASSUME LifecycleInv, [Next]_vars PROVE Down'
  OBVIOUS
<1> USE DEF LifecycleInv, TypeOK, SpawnInv, ReadyInv, UnhealthyWhileDraining,
       MarkedUnhealthy, Running, goroutines, healthState, stopRequests, server,
       probe, SignalPcs, MainPcs
<1>1. CASE BuildHandlers
  BY <1>1 DEF BuildHandlers
<1>2. CASE MakeJWTAuthHandler
  BY <1>2 DEF MakeJWTAuthHandler, Exit
<1>3. CASE StartMetrics
  BY <1>3 DEF StartMetrics
<1>4. CASE SpawnGoroutines
  BY <1>4 DEF SpawnGoroutines
<1>5. CASE WriteLockFile
  BY <1>5 DEF WriteLockFile, Exit
<1>6. CASE AcceptConnections
  BY <1>6 DEF AcceptConnections
<1>7. CASE ReturnFromStart
  BY <1>7 DEF ReturnFromStart, Exit
<1>8. CASE Notify
  BY <1>8 DEF Notify
<1>9. CASE AwaitStop
  BY <1>9 DEF AwaitStop
<1>10. CASE StopAccepting
  BY <1>10 DEF StopAccepting
<1>11. CASE RemoveLockFile
  BY <1>11 DEF RemoveLockFile
<1>12. CASE WaitIntervalThenShutdown
  BY <1>12 DEF WaitIntervalThenShutdown
<1>13. CASE ShutdownPoll
  BY <1>13 DEF ShutdownPoll
<1>14. CASE ShutdownTimeout
  BY <1>14 DEF ShutdownTimeout
<1>15. CASE SignalClosesChannel
  BY <1>15 DEF SignalClosesChannel, Exit
<1>16. CASE ListenAndServe
  BY <1>16 DEF ListenAndServe
<1>17. CASE ServeReturns
  BY <1>17 DEF ServeReturns
<1>18. CASE ServeClosesChannel
  BY <1>18 DEF ServeClosesChannel, Exit
<1>19. CASE MetricsListenAndServe
  BY <1>19 DEF MetricsListenAndServe
<1>20. CASE MetricsPanic
  BY <1>20 DEF MetricsPanic, Exit
<1>21. CASE SendSIGTERM
  BY <1>21 DEF SendSIGTERM, Exit
<1>22. CASE CancelContext
  BY <1>22 DEF CancelContext
<1>23. CASE ProbeLoadsFlag
  BY <1>23 DEF ProbeLoadsFlag
<1>24. CASE ProbeStatsLock
  BY <1>24 DEF ProbeStatsLock
<1>25. ASSUME NEW c \in Clients, Connect(c) PROVE Down'
  BY <1>25 DEF Connect, SetConn
<1>26. ASSUME NEW c \in Clients, Request(c) PROVE Down'
  BY <1>26 DEF Request, SetConn
<1>27. ASSUME NEW c \in Clients, Respond(c) PROVE Down'
  BY <1>27 DEF Respond, SetConn
<1>28. ASSUME NEW c \in Clients, Disconnect(c) PROVE Down'
  BY <1>28 DEF Disconnect, SetConn
<1>29. CASE UNCHANGED vars
  BY <1>29 DEF vars
<1>30. QED
  BY <1>1, <1>2, <1>3, <1>4, <1>5, <1>6, <1>7, <1>8, <1>9, <1>10,
     <1>11, <1>12, <1>13, <1>14, <1>15, <1>16, <1>17, <1>18, <1>19,
     <1>20, <1>21, <1>22, <1>23, <1>24, <1>25, <1>26, <1>27, <1>28,
     <1>29
  DEF Next, MainStep, SignalStep, ServeStep, Environment, Terminated

LEMMA LifecycleInit == Init => LifecycleInv
BY LifecycleAssumption
DEF Init, LifecycleInv, TypeOK, SpawnInv, ConnInv, ExitInv, ChannelInv, ResultInv,
    DrainInv, ReadyInv, UnhealthyWhileDraining,
    DoubleCloseNeedsFailedListener, MarkedUnhealthy, ServeFailed, Running,
    MainPcs, SignalPcs, ServePcs, Exits

LEMMA LifecycleStep == LifecycleInv /\ [Next]_vars => LifecycleInv'
<1>1. LifecycleInv /\ [Next]_vars => TypeOK'
  BY TypeStep DEF LifecycleInv
<1>2. QED
  BY <1>1, EndStep, UnhealthyStep DEF LifecycleInv

\* The inductive invariant holds of every behaviour.
THEOREM Invariance == Spec => []LifecycleInv
BY LifecycleInit, LifecycleStep, PTL DEF Spec

\* The process state stays well formed.
THEOREM TypeCorrect == Spec => []TypeOK
<1>1. LifecycleInv => TypeOK
  BY DEF LifecycleInv
<1>2. QED
  BY <1>1, Invariance, PTL

\* Start returns from a shutdown that did not time out only with no request in
\* progress, for any number of clients.
THEOREM Drained == Spec => []DrainedBeforeReturn
<1>1. LifecycleInv => DrainedBeforeReturn
  <2> SUFFICES ASSUME LifecycleInv, exit = "return", ~ServeFailed,
                      shutdownResult # "timeout",
                      NEW c \in Clients
               PROVE  conn[c] # "active"
    BY DEF DrainedBeforeReturn
  <2>1. sigPc = "done"
    BY DEF LifecycleInv, ChannelInv, ServeFailed
  <2>2. shutdownResult = "nil"
    BY <2>1 DEF LifecycleInv, ResultInv, TypeOK
  <2>3. QED
    BY <2>2 DEF LifecycleInv, DrainInv
<1>2. QED
  BY <1>1, Invariance, PTL

\* A shutdown that begins after the service was ready leaves it unhealthy.
THEOREM Unhealthy == Spec => []UnhealthyWhileDraining
<1>1. LifecycleInv => UnhealthyWhileDraining
  BY DEF LifecycleInv
<1>2. QED
  BY <1>1, Invariance, PTL

\* The channel is closed twice only if the listener failed and Shutdown returned.
THEOREM DoubleClose == Spec => []DoubleCloseNeedsFailedListener
<1>1. LifecycleInv => DoubleCloseNeedsFailedListener
  BY DEF LifecycleInv
<1>2. QED
  BY <1>1, Invariance, PTL

\* Every step keeps the lock file where main and the probes rely on it.
LEMMA LockStep == LifecycleInv /\ LockInv /\ [Next]_vars => LockInv'
<1> SUFFICES ASSUME SpawnInv, LockInv, acceptingConnections \in {0, 1}, [Next]_vars
             PROVE  LockInv'
  BY DEF LifecycleInv, TypeOK
<1> USE DEF LockInv, Running, goroutines, healthState, stopRequests, server, probe
<1>1. CASE BuildHandlers
  BY <1>1 DEF BuildHandlers
<1>2. CASE MakeJWTAuthHandler
  BY <1>2 DEF MakeJWTAuthHandler, Exit
<1>3. CASE StartMetrics
  BY <1>3 DEF StartMetrics
<1>4. CASE SpawnGoroutines
  BY <1>4 DEF SpawnGoroutines, SpawnInv
<1>5. CASE WriteLockFile
  BY <1>5 DEF WriteLockFile, Exit
<1>6. CASE AcceptConnections
  BY <1>6 DEF AcceptConnections
<1>7. CASE ReturnFromStart
  BY <1>7 DEF ReturnFromStart, Exit
<1>8. CASE Notify
  BY <1>8 DEF Notify
<1>9. CASE AwaitStop
  BY <1>9 DEF AwaitStop
<1>10. CASE StopAccepting
  BY <1>10 DEF StopAccepting
<1>11. CASE RemoveLockFile
  BY <1>11 DEF RemoveLockFile
<1>12. CASE WaitIntervalThenShutdown
  BY <1>12 DEF WaitIntervalThenShutdown
<1>13. CASE ShutdownPoll
  BY <1>13 DEF ShutdownPoll
<1>14. CASE ShutdownTimeout
  BY <1>14 DEF ShutdownTimeout
<1>15. CASE SignalClosesChannel
  BY <1>15 DEF SignalClosesChannel, Exit
<1>16. CASE ListenAndServe
  BY <1>16 DEF ListenAndServe
<1>17. CASE ServeReturns
  BY <1>17 DEF ServeReturns
<1>18. CASE ServeClosesChannel
  BY <1>18 DEF ServeClosesChannel, Exit
<1>19. CASE MetricsListenAndServe
  BY <1>19 DEF MetricsListenAndServe
<1>20. CASE MetricsPanic
  BY <1>20 DEF MetricsPanic, Exit
<1>21. CASE SendSIGTERM
  <2>1. /\ mainPc' = mainPc \/ mainPc' = "exited"
        /\ UNCHANGED <<cfg, sigPc, healthState, probe>>
    BY <1>21, Zenon DEF SendSIGTERM, Exit
  <2>2. QED
    BY <2>1
<1>22. CASE CancelContext
  BY <1>22 DEF CancelContext
<1>23. CASE ProbeLoadsFlag
  BY <1>23 DEF ProbeLoadsFlag
<1>24. CASE ProbeStatsLock
  BY <1>24 DEF ProbeStatsLock
<1>25. ASSUME NEW c \in Clients, Connect(c) PROVE LockInv'
  BY <1>25 DEF Connect, SetConn
<1>26. ASSUME NEW c \in Clients, Request(c) PROVE LockInv'
  BY <1>26 DEF Request, SetConn
<1>27. ASSUME NEW c \in Clients, Respond(c) PROVE LockInv'
  BY <1>27 DEF Respond, SetConn
<1>28. ASSUME NEW c \in Clients, Disconnect(c) PROVE LockInv'
  BY <1>28 DEF Disconnect, SetConn
<1>29. CASE UNCHANGED vars
  BY <1>29 DEF vars
<1>30. QED
  BY <1>1, <1>2, <1>3, <1>4, <1>5, <1>6, <1>7, <1>8, <1>9, <1>10,
     <1>11, <1>12, <1>13, <1>14, <1>15, <1>16, <1>17, <1>18, <1>19,
     <1>20, <1>21, <1>22, <1>23, <1>24, <1>25, <1>26, <1>27, <1>28,
     <1>29
  DEF Next, MainStep, SignalStep, ServeStep, Environment, Terminated

\* With a lock file in use, a ready service that nobody has asked to stop never
\* answers a probe with 503, however main, probes and signal interleave.
THEOREM LockedHealthy == Spec => LockedServiceIsHealthy
<1> DEFINE Healthy ==
      ProbeStatsLock /\ ~cfg.suppressLock /\ ~StopPending => health' = "ok"
<1>1. Init => LockInv
  BY DEF Init, LockInv
<1>2. LockInv => Healthy
  BY DEF LockInv, StopPending, ProbeStatsLock
<1>3. LockInv /\ [Next]_vars => [Healthy]_vars
  BY <1>2
<1>4. QED
  BY <1>1, <1>3, LockStep, Invariance, PTL DEF Spec, LockedServiceIsHealthy

\* A step that ends the process for any reason but a returned Start is a failure.
LEMMA FailureStops ==
  ASSUME Running, mainPc' = "exited", exit' \notin {"none", "return"},
         exit = "none", UNCHANGED server
  PROVE  Server!Next
<1>1. Phase # "stopped" /\ Phase' = "stopped" /\ Outcome' = "failed"
  BY DEF Phase, Outcome, Running
<1>2. Active' = Active
  BY DEF Active, server
<1>3. Server!StopAs("failed")
  BY <1>1, <1>2 DEF Server!StopAs
<1>4. QED
  BY <1>3 DEF Server!Next

\* Every step of the process is a step of GracefulServer or a stutter.
LEMMA ServerStep ==
  LifecycleInv /\ [Next]_vars => [Server!Next]_(Server!vars)
<1> SUFFICES ASSUME LifecycleInv, [Next]_vars
             PROVE  Server!Next \/ UNCHANGED Server!vars
  BY Zenon
<1>0. /\ exit = "none" <=> Running
      /\ inShutdown \in BOOLEAN
      /\ conn \in [Clients -> {"closed", "idle", "active"}]
  BY DEF LifecycleInv, ExitInv, TypeOK
<1> USE DEF Running, goroutines, healthState, stopRequests, server, probe
<1> DEFINE Still == UNCHANGED <<exit, shutdownResult, Active, Phase>>
<1>1. ASSUME Still PROVE UNCHANGED Server!vars
  BY <1>1 DEF Server!vars, Outcome
<1>2. CASE BuildHandlers \/ StartMetrics \/ SpawnGoroutines
           \/ AcceptConnections
  <2>1. Still
    BY <1>2 DEF BuildHandlers, StartMetrics, SpawnGoroutines,
       AcceptConnections, Active, Phase, LifecycleInv, SpawnInv
  <2>2. QED
    BY <1>1, <2>1
<1>3. CASE MakeJWTAuthHandler
  <2>1. CASE Exit("authError")
    BY <1>0, <1>3, <2>1, FailureStops DEF MakeJWTAuthHandler, Exit
  <2>2. CASE ~Exit("authError")
    <3>1. Still
      BY <1>3, <2>2 DEF MakeJWTAuthHandler, Active, Phase
    <3>2. QED
      BY <1>1, <3>1
  <2>3. QED
    BY <2>1, <2>2
<1>4. CASE WriteLockFile
  <2>1. CASE Exit("lockError")
    BY <1>0, <1>4, <2>1, FailureStops DEF WriteLockFile, Exit
  <2>2. CASE ~Exit("lockError")
    <3>1. Still
      BY <1>4, <2>2 DEF WriteLockFile, Active, Phase
    <3>2. QED
      BY <1>1, <3>1
  <2>3. QED
    BY <2>1, <2>2
<1>5. CASE ReturnFromStart
  <2>1. /\ Phase # "stopped" /\ Phase' = "stopped" /\ Active' = Active
        /\ exit' = "return" /\ shutdownResult' = shutdownResult
    BY <1>5 DEF ReturnFromStart, Exit, Phase, Active
  <2>2. CASE shutdownResult = "none"
    <3>1. Outcome' = "failed"
      BY <2>1, <2>2 DEF Outcome
    <3>2. QED
      BY <2>1, <3>1 DEF Server!Next, Server!StopAs
  <2>3. CASE shutdownResult = "nil"
    <3>1. Outcome' = "clean"
      BY <2>1, <2>3 DEF Outcome
    <3>2. Phase = "draining" /\ Active = {}
      BY <1>5, <2>3 DEF ReturnFromStart, LifecycleInv, DrainInv, Phase, Active
    <3>3. QED
      BY <2>1, <3>1, <3>2 DEF Server!Next, Server!StopDraining, Server!StopAs
  <2>4. CASE shutdownResult = "timeout"
    <3>1. Outcome' = "timedOut"
      BY <2>1, <2>4 DEF Outcome
    <3>2. Phase = "draining"
      BY <1>5, <2>4 DEF ReturnFromStart, LifecycleInv, ResultInv, Phase
    <3>3. QED
      BY <2>1, <3>1, <3>2 DEF Server!Next, Server!StopDraining, Server!StopAs
  <2>5. QED
    BY <2>2, <2>3, <2>4 DEF LifecycleInv, TypeOK
<1>6. CASE Notify \/ AwaitStop \/ StopAccepting \/ RemoveLockFile
           \/ MetricsListenAndServe \/ CancelContext \/ ProbeLoadsFlag
           \/ ProbeStatsLock
  <2>1. UNCHANGED <<mainPc, servePc, inShutdown, conn, exit, shutdownResult>>
    BY <1>6, Zenon DEF Notify, AwaitStop, StopAccepting, RemoveLockFile,
       MetricsListenAndServe, CancelContext, ProbeLoadsFlag, ProbeStatsLock
  <2>2. Still
    BY <2>1 DEF Active, Phase
  <2>3. QED
    BY <1>1, <2>2
<1>7. CASE WaitIntervalThenShutdown
  <2>1. ~inShutdown => Server!Drain
    BY <1>7 DEF WaitIntervalThenShutdown, Server!Drain, Active, Phase, Outcome
  <2>2. inShutdown => Still
    BY <1>7 DEF WaitIntervalThenShutdown, Active, Phase
  <2>3. QED
    BY <1>1, <2>1, <2>2 DEF Server!Next
<1>8. CASE ShutdownPoll \/ ShutdownTimeout
  <2>1. UNCHANGED <<mainPc, servePc, inShutdown, exit>>
    BY <1>8 DEF ShutdownPoll, ShutdownTimeout
  <2>2. Active' = Active
    BY <1>0, <1>8 DEF ShutdownPoll, ShutdownTimeout, Active
  <2>3. exit = "none"
    BY <1>0, <1>8 DEF ShutdownPoll, ShutdownTimeout
  <2>4. QED
    BY <2>1, <2>2, <2>3 DEF Server!vars, Phase, Outcome
<1>9. CASE SignalClosesChannel
  <2>1. CASE Exit("panicClose")
    BY <1>0, <1>9, <2>1, FailureStops DEF SignalClosesChannel, Exit
  <2>2. CASE ~Exit("panicClose")
    <3>1. UNCHANGED <<mainPc, servePc, inShutdown, conn, exit, shutdownResult>>
      BY <1>9, <2>2, Zenon DEF SignalClosesChannel
    <3>2. Still
      BY <3>1 DEF Active, Phase
    <3>3. QED
      BY <1>1, <3>2
  <2>3. QED
    BY <2>1, <2>2
<1>10. CASE ListenAndServe
  <2>1. UNCHANGED <<exit, shutdownResult, Active>>
    BY <1>10 DEF ListenAndServe, Active
  <2>2. inShutdown => UNCHANGED Phase
    BY <1>10 DEF ListenAndServe, Phase
  <2>3. ~inShutdown => Phase = "starting" /\ Phase' = "serving"
    BY <1>10 DEF ListenAndServe, Phase
  <2>4. QED
    BY <1>1, <2>1, <2>2, <2>3 DEF Server!Next, Server!Open, Outcome
<1>11. CASE ServeReturns
  <2>1. Still
    BY <1>11 DEF ServeReturns, Active, Phase
  <2>2. QED
    BY <1>1, <2>1
<1>12. CASE ServeClosesChannel
  <2>1. CASE Exit("panicClose")
    BY <1>0, <1>12, <2>1, FailureStops DEF ServeClosesChannel, Exit
  <2>2. CASE ~Exit("panicClose")
    <3>1. /\ UNCHANGED <<mainPc, inShutdown, conn, exit, shutdownResult>>
          /\ servePc = "failed" /\ servePc' = "broken"
      BY <1>12, <2>2, Zenon DEF ServeClosesChannel
    <3>2. Still
      BY <3>1 DEF Active, Phase
    <3>3. QED
      BY <1>1, <3>2
  <2>3. QED
    BY <2>1, <2>2
<1>13. CASE MetricsPanic
  BY <1>0, <1>13, FailureStops DEF MetricsPanic, Exit
<1>14. CASE SendSIGTERM
  <2>1. CASE Exit("killed")
    BY <1>0, <1>14, <2>1, FailureStops DEF SendSIGTERM, Exit
  <2>2. CASE ~Exit("killed")
    <3>1. UNCHANGED <<mainPc, servePc, inShutdown, conn, exit, shutdownResult>>
      BY <1>14, <2>2, Zenon DEF SendSIGTERM
    <3>2. Still
      BY <3>1 DEF Active, Phase
    <3>3. QED
      BY <1>1, <3>2
  <2>3. QED
    BY <2>1, <2>2
<1>15. ASSUME NEW c \in Clients, Connect(c) \/ Disconnect(c)
       PROVE  UNCHANGED Server!vars
  <2>1. Still
    BY <1>0, <1>15 DEF Connect, Disconnect, SetConn, Active, Phase
  <2>2. QED
    BY <1>1, <2>1
<1>16. ASSUME NEW c \in Clients, Request(c) PROVE Server!Next
  <2>1. Active' = Active \cup {c} /\ c \notin Active
    BY <1>0, <1>16 DEF Request, SetConn, Active
  <2>2. UNCHANGED <<Phase, Outcome>>
    BY <1>16 DEF Request, SetConn, Phase, Outcome
  <2>3. Phase \in {"serving", "draining"}
    BY <1>16 DEF Request, LifecycleInv, ConnInv, Phase
  <2>4. Server!Begin(c)
    BY <2>1, <2>2, <2>3 DEF Server!Begin
  <2>5. QED
    BY <2>4 DEF Server!Next
<1>17. ASSUME NEW c \in Clients, Respond(c) PROVE Server!Next
  <2>1. Active' = Active \ {c} /\ c \in Active
    BY <1>0, <1>17 DEF Respond, SetConn, Active
  <2>2. UNCHANGED <<Phase, Outcome>> /\ Phase # "stopped"
    BY <1>17 DEF Respond, SetConn, Phase, Outcome
  <2>3. Server!End(c)
    BY <2>1, <2>2 DEF Server!End
  <2>4. QED
    BY <2>3 DEF Server!Next
<1>18. CASE UNCHANGED vars
  <2>1. Still
    BY <1>18 DEF vars, Active, Phase
  <2>2. QED
    BY <1>1, <2>1
<1>19. QED
  BY <1>2, <1>3, <1>4, <1>5, <1>6, <1>7, <1>8, <1>9, <1>10, <1>11, <1>12,
     <1>13, <1>14, <1>15, <1>16, <1>17, <1>18
  DEF Next, MainStep, SignalStep, ServeStep, Environment, Terminated

\* Every behaviour of the process is a behaviour of GracefulServer, its liveness
\* apart: no request begins before the server opens or after it stops, and the
\* process ends cleanly only with no request in progress.
THEOREM ImplementsGracefulServer ==
  Spec => Server!Init /\ [][Server!Next]_(Server!vars)
<1>1. Init => Server!Init
  BY DEF Init, Server!Init, Phase, Active, Outcome, Running
<1>2. LifecycleInv /\ [Next]_vars => [Server!Next]_(Server!vars)
  BY ServerStep
<1>3. QED
  BY <1>1, <1>2, Invariance, PTL DEF Spec

\* What goes wrong by itself goes wrong for a fault or for the shared port.
CauseInv ==
  ServeFailed \/ exit \in {"authError", "lockError", "panicMetrics"}
    => cfg.samePort \/ cfg.faults # {}

\* No step fails without a cause.
LEMMA CauseStep == CauseInv /\ [Next]_vars => CauseInv'
<1> SUFFICES ASSUME CauseInv, [Next]_vars PROVE CauseInv'
  OBVIOUS
<1> USE DEF CauseInv, ServeFailed, goroutines
<1>1. CASE MainStep
  BY <1>1 DEF MainStep, BuildHandlers, MakeJWTAuthHandler, StartMetrics, SpawnGoroutines,
     WriteLockFile, AcceptConnections, ReturnFromStart, Exit
<1>2. CASE SignalStep
  BY <1>2 DEF SignalStep, Notify, AwaitStop, StopAccepting, RemoveLockFile,
     WaitIntervalThenShutdown, ShutdownPoll, ShutdownTimeout, SignalClosesChannel, Exit
<1>3. CASE ServeStep
  BY <1>3 DEF ServeStep, ListenAndServe, ServeReturns, ServeClosesChannel, Exit
<1>4. CASE MetricsListenAndServe \/ MetricsPanic
  BY <1>4 DEF MetricsListenAndServe, MetricsPanic, Exit
<1>5. CASE Environment
  BY <1>5 DEF Environment, SendSIGTERM, CancelContext, ProbeLoadsFlag, ProbeStatsLock,
     Connect, Request, Respond, Disconnect, SetConn, Exit
<1>6. CASE UNCHANGED vars
  BY <1>6 DEF vars
<1>7. QED
  BY <1>1, <1>2, <1>3, <1>4, <1>5, <1>6 DEF Next, Terminated

\* The process ends only when it was asked to, was killed, or met a fault or the
\* metrics server on its port.
THEOREM CausedEnd == Spec => []EndsOnlyForCause
<1>1. Init => CauseInv
  BY DEF Init, CauseInv, ServeFailed
<1>2. LifecycleInv /\ CauseInv => EndsOnlyForCause
  <2> SUFFICES ASSUME LifecycleInv, CauseInv, ~Running, ~StopPending, exit # "killed"
               PROVE  cfg.samePort \/ cfg.faults # {}
    BY DEF EndsOnlyForCause
  <2>1. exit \in Exits \ {"none", "killed"} /\ sigPc # "done"
    BY DEF LifecycleInv, TypeOK, ExitInv, StopPending
  <2>2. exit = "return" => ServeFailed
    BY <2>1 DEF LifecycleInv, ChannelInv, ServeFailed
  <2>3. exit = "panicClose" => ServeFailed
    BY DEF LifecycleInv, DoubleCloseNeedsFailedListener
  <2>4. QED
    BY <2>1, <2>2, <2>3 DEF CauseInv, Exits
<1>3. QED
  BY <1>1, <1>2, CauseStep, Invariance, PTL DEF Spec

=============================================================================

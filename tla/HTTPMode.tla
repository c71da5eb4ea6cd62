------------------------------ MODULE HTTPMode ------------------------------
(***************************************************************************)
(* mode=http: the process of Lifecycle together with the function it       *)
(* starts once and the two goroutines that HTTPFunctionRunner.Start spawns *)
(* (executor/http_runner.go, lines 65 to 113, called without a look at its *)
(* error in pkg/watchdog.go, line 622):                                    *)
(*   forwarder  subscribes to SIGTERM, which listenUntilShutdown does too, *)
(*              and passes the first one on to the function;               *)
(*   waiter     waits for the function and ends the whole process if it    *)
(*              failed, without drain and with the lock file in place.     *)
(* Neither exists when Start has given up on a pipe, which main does not   *)
(* notice, and the reader of the function's stderr is given no pipe at all *)
(* when that one fails.                                                    *)
(* The function exits when it likes, whether it was signalled or not.      *)
(***************************************************************************)
EXTENDS Lifecycle

VARIABLES
  startPc,         \* HTTPFunctionRunner.Start: "none", "forked" or "returned"
  child,           \* none, unstarted, running, exitedZero or exitedNonzero
  fwdPc, fwdChan,  \* the forwarder, and its channel sig holds a SIGTERM
  waitPc,          \* the waiter: none, waiting or done
  stderrPipe,      \* what the reader of stderr was given: none yet, open or nil
  signalled,       \* the forwarder has passed SIGTERM on
  asked            \* history: the goroutines that were sent a SIGTERM

runner == <<startPc, child, fwdPc, fwdChan, waitPc, stderrPipe, signalled, asked>>
httpVars == <<vars, runner>>

HTTPInit ==
  /\ Init
  /\ startPc = "none" /\ child = "none"
  /\ fwdPc = "none" /\ fwdChan = FALSE
  /\ waitPc = "none" /\ stderrPipe = "none"
  /\ signalled = FALSE /\ asked = {}

-----------------------------------------------------------------------------
(* HTTPFunctionRunner.Start, called by main while it builds the handlers. *)

\* StdinPipe or StdoutPipe fails and Start returns its error: no function, no
\* goroutine, no Client.
ReturnEarly ==
  /\ mainPc = "start" /\ startPc = "none"
  /\ startPc' = "returned"
  /\ UNCHANGED <<vars, child, fwdPc, fwdChan, waitPc, stderrPipe, signalled, asked>>

\* The error of StderrPipe is dropped and its reader started with a nil pipe.
SpawnForwarder ==
  /\ mainPc = "start" /\ startPc = "none"
  /\ startPc' = "forked" /\ fwdPc' = "spawned"
  /\ stderrPipe' \in {"open", "nil"}
  /\ UNCHANGED <<vars, child, fwdChan, waitPc, signalled, asked>>

\* Mutant: no goroutine waits for the function.
NoWaiter == "none"

Waiter == "waiting"

\* cmd.Start may fail; the waiter is spawned all the same.
StartChild ==
  /\ mainPc = "start" /\ startPc = "forked"
  /\ child' \in {"running", "unstarted"}
  /\ waitPc' = Waiter
  /\ startPc' = "returned"
  /\ UNCHANGED <<vars, fwdPc, fwdChan, stderrPipe, signalled, asked>>

\* log.Fatalf in the waiter, a panic in another goroutine: nothing is cleaned up.
Die(how) == Exit(how) /\ UNCHANGED metricsPc

-----------------------------------------------------------------------------
(* The goroutines of the runner, and the function. *)

ForwarderNotify ==
  /\ Running
  /\ fwdPc = "spawned"
  /\ fwdPc' = "waiting"
  /\ UNCHANGED <<vars, startPc, child, fwdChan, waitPc, stderrPipe, signalled, asked>>

\* Mutant: the signal is received and not passed on.
ForwardNothing == UNCHANGED signalled

Forward == signalled' = TRUE

\* cmd.Process.Signal, once: until cmd.Start succeeds there is no Process.
ForwardSIGTERM ==
  /\ Running
  /\ fwdPc = "waiting" /\ fwdChan
  /\ fwdPc' = "done" /\ fwdChan' = FALSE
  /\ IF child \in {"none", "unstarted"}
       THEN Die("panicForward") /\ UNCHANGED signalled
       ELSE Forward /\ UNCHANGED vars
  /\ UNCHANGED <<startPc, child, waitPc, stderrPipe, asked>>

ChildExits ==
  /\ child = "running"
  /\ child' \in {"exitedZero", "exitedNonzero"}
  /\ UNCHANGED <<vars, startPc, fwdPc, fwdChan, waitPc, stderrPipe, signalled, asked>>

\* Wait's error, of a function that failed or was never started, is fatal; of a
\* function that exited with 0 nobody is told.
WaitChild ==
  /\ Running
  /\ waitPc = "waiting" /\ child \in {"unstarted", "exitedZero", "exitedNonzero"}
  /\ waitPc' = "done"
  /\ IF child = "exitedZero" THEN UNCHANGED vars ELSE Die("childFailed")
  /\ UNCHANGED <<startPc, child, fwdPc, fwdChan, stderrPipe, signalled, asked>>

\* The scanner of stderr reads from its nil pipe.
LogReaderPanics ==
  /\ Running /\ stderrPipe = "nil"
  /\ Die("panicLog")
  /\ UNCHANGED runner

-----------------------------------------------------------------------------
(* SIGTERM: a copy for every channel registered, each of capacity 1; the   *)
(* default action if there is none.                                        *)

Listeners ==
  {g \in {"forwarder", "signal"} :
     IF g = "forwarder" THEN fwdPc \in {"waiting", "done"} ELSE sigPc \notin {"none", "spawned"}}

DeliverSIGTERM ==
  /\ Running
  /\ IF Listeners # {}
       THEN /\ fwdChan' = (fwdChan \/ "forwarder" \in Listeners)
            /\ sigChan' = (sigChan \/ "signal" \in Listeners)
            /\ asked' = asked \cup Listeners
            /\ UNCHANGED <<cfg, goroutines, exit, healthState, idleConnsClosed, ctxDone,
                           server, probe, earlyStop>>
       ELSE Die("killed") /\ UNCHANGED <<fwdChan, asked>>
  /\ UNCHANGED <<startPc, child, fwdPc, waitPc, stderrPipe, signalled>>

-----------------------------------------------------------------------------

\* Mutant: go functionInvoker.Start().
BuildsHandlersAtOnce == TRUE

\* main goes on building the handlers when Start has returned.
BuildsHandlers == startPc = "returned"

HTTPMainStep ==
  \/ ReturnEarly \/ SpawnForwarder \/ StartChild
  \/ (BuildsHandlers /\ MainStep /\ UNCHANGED runner)

\* The metrics server and the health probes, which share nothing with the
\* runner, are left to Lifecycle.
Others ==
  \/ ServeStep \/ CancelContext \/ Terminated
  \/ \E c \in Clients : Connect(c) \/ Request(c) \/ Respond(c) \/ Disconnect(c)

HTTPSignalStep == SignalStep /\ UNCHANGED runner

Forwarder == ForwarderNotify \/ ForwardSIGTERM

HTTPNext ==
  \/ HTTPMainStep \/ HTTPSignalStep \/ Forwarder \/ WaitChild
  \/ LogReaderPanics \/ ChildExits \/ DeliverSIGTERM
  \/ (Others /\ UNCHANGED runner)

HTTPSpec ==
  /\ HTTPInit /\ [][HTTPNext]_httpVars
  /\ WF_httpVars(HTTPMainStep) /\ WF_httpVars(HTTPSignalStep)
  /\ WF_httpVars(Forwarder) /\ WF_httpVars(WaitChild)

-----------------------------------------------------------------------------
(* Properties, besides those of Lifecycle. *)

HTTPTypeOK ==
  /\ cfg \in Configs
  /\ exit \in Exits \cup {"panicForward", "childFailed", "panicLog"}
  /\ startPc \in {"none", "forked", "returned"}
  /\ startPc # "returned" => mainPc \in {"start", "exited"} /\ sigPc = "none"
  /\ child \in {"none", "unstarted", "running", "exitedZero", "exitedNonzero"}
  /\ fwdPc \in {"none", "spawned", "waiting", "done"} /\ fwdChan \in BOOLEAN
  /\ waitPc \in {"none", "waiting", "done"}
  /\ stderrPipe \in {"none", "open", "nil"}
  /\ signalled \in BOOLEAN /\ asked \subseteq {"forwarder", "signal"}

\* A SIGTERM that the forwarder was sent reaches the function, unless the
\* function or the process has ended before.
FunctionToldToStop ==
  "forwarder" \in asked ~> signalled \/ child \in {"exitedZero", "exitedNonzero"} \/ ~Running

\* What Start and the waiter keep to themselves: an end with status 0, and a Start
\* that gave up on a pipe and has no function.
Unnoticed == child = "exitedZero" \/ (startPc = "returned" /\ child = "none")

\* Once HTTPFunctionRunner.Start has returned, a watchdog whose function has failed, or
\* could not be started, ends, whatever main and the drain are doing meanwhile.  It goes
\* on answering for a function that is not there in the two cases of Unnoticed, and in
\* no other.
FailedFunctionEndsProcess ==
  startPc = "returned" ~> child = "running" \/ Unnoticed \/ ~Running

=============================================================================

----------------------------- MODULE ForkRunner -----------------------------
(***************************************************************************)
(* One request in the modes that fork a process per request: Run of the    *)
(* serializing runner (executor/serializing_fork_runner.go) and of the     *)
(* streaming runner (executor/streaming_runner.go), with what they use of  *)
(* os/exec: the pipes, the goroutine that kills the process when the       *)
(* context ends, and Wait.                                                 *)
(*                                                                         *)
(* The function is any program: it reads, writes, closes its pipes, leaves *)
(* a process behind that inherits them, and exits when it likes or never,  *)
(* for instance because its standard error is full (LogPipe).              *)
(***************************************************************************)
EXTENDS Integers

CONSTANTS
  Configs,   \* the configurations to explore
  BodyLen,   \* bound on the bytes of the request's body
  OutLen,    \* bound on the bytes the function writes
  PipeCap    \* capacity of a pipe

\* serializing: the mode.  timeout: exec_timeout > 0.
Config == [serializing : BOOLEAN, timeout : BOOLEAN]

ASSUME ForkRunnerAssumption ==
  /\ Configs \subseteq Config
  /\ BodyLen \in Nat /\ OutLen \in Nat
  /\ PipeCap \in Nat \ {0}

Programs == {"child", "heir"}   \* the function, and a process it leaves behind

VARIABLES
  cfg,
  pc,                      \* the handler: body, fork, pipes, wait, done
  bodyRead, bodyEnd,       \* r.Body: bytes read from it, and how it ended
  ctxDone, watcher,        \* the context, and os/exec's goroutine on it
  alive, status, reaped,   \* the processes; the child's status; Wait has it
  inEnds, outEnds,         \* the programs that hold stdin and stdout open
  inPut, inBuf,            \* stdin: bytes written in all, bytes in the pipe
  written, outBuf, got,    \* stdout: bytes written, in the pipe, read
  writer, reader,          \* the two goroutines on the pipes
  collector,               \* the goroutine that appends to errors
  answer                   \* what the client is told

body == <<bodyRead, bodyEnd>>
context == <<ctxDone, watcher>>
process == <<alive, status, inEnds, outEnds>>
stdin == <<inPut, inBuf>>
stdout == <<written, outBuf, got>>
goroutines == <<writer, reader, collector>>
vars == <<cfg, pc, body, context, process, reaped, stdin, stdout, goroutines, answer>>

Init ==
  /\ cfg \in Configs
  /\ pc = IF cfg.serializing THEN "body" ELSE "fork"
  /\ bodyRead = 0 /\ bodyEnd = "open"
  /\ ctxDone = FALSE /\ watcher = "none"
  /\ alive = [p \in Programs |-> "none"] /\ status = "none" /\ reaped = FALSE
  /\ inEnds = {} /\ outEnds = {}
  /\ inPut = 0 /\ inBuf = 0
  /\ written = 0 /\ outBuf = 0 /\ got = 0
  /\ writer = "none" /\ reader = "none" /\ collector = "idle"
  /\ answer = "none"

-----------------------------------------------------------------------------
(* The context: its timer, and the cancel deferred to the handler's return. *)

TimerFires ==
  /\ cfg.timeout /\ ~ctxDone
  /\ ctxDone' = TRUE
  /\ UNCHANGED <<cfg, pc, body, watcher, process, reaped, stdin, stdout, goroutines, answer>>

CancelContext == ctxDone' = (ctxDone \/ cfg.timeout)

Return(a) ==
  /\ pc' = "done"
  /\ answer' = a
  /\ CancelContext

-----------------------------------------------------------------------------
(* The handler. *)

\* A read of the body by io.ReadAll, or by the copying goroutine when it has
\* written what it read: a byte, the end, or an error (read_timeout, client gone).
ReadBody ==
  /\ bodyEnd = "open"
  /\ pc = "body" \/ (~cfg.serializing /\ writer = "run" /\ inPut = bodyRead)
  /\ \/ bodyRead < BodyLen /\ bodyRead' = bodyRead + 1 /\ UNCHANGED bodyEnd
     \/ bodyEnd' \in {"eof", "error"} /\ UNCHANGED bodyRead
  /\ UNCHANGED <<cfg, pc, context, process, reaped, stdin, stdout, goroutines, answer>>

BodyIsRead ==
  /\ pc = "body" /\ bodyEnd # "open"
  /\ IF bodyEnd = "error"
       THEN Return("error")
       ELSE pc' = "fork" /\ UNCHANGED <<ctxDone, answer>>
  /\ UNCHANGED <<cfg, body, watcher, process, reaped, stdin, stdout, goroutines>>

\* The error of Start becomes a 500 in serializing mode; streaming only logs it.
StartFails ==
  /\ pc = "fork"
  /\ Return(IF cfg.serializing THEN "error" ELSE "streamed")
  /\ UNCHANGED <<cfg, body, watcher, process, reaped, stdin, stdout, goroutines>>

\* Mutant: exec.Command.
NoWatcher == "none"

\* exec.CommandContext with the timeout's context, or with one that never ends.
Watcher == IF cfg.timeout THEN "watch" ELSE "none"

\* Start refuses to start a process for a context that is already done.
StartSucceeds ==
  /\ pc = "fork" /\ ~ctxDone
  /\ pc' = IF cfg.serializing THEN "pipes" ELSE "wait"
  /\ alive' = [alive EXCEPT !["child"] = "running"]
  /\ inEnds' = {"child"} /\ outEnds' = {"child"}
  /\ writer' = "run" /\ reader' = "run"
  /\ watcher' = Watcher
  /\ UNCHANGED <<cfg, body, ctxDone, status, reaped, stdin, stdout, collector, answer>>

PipesEnded == writer = "done" /\ reader \in {"eof", "failed"}

\* What pipeToProcess returns as errors[0].  Nothing orders the read after the
\* append: it may miss the error, and between the stores of the append it finds
\* the new length with a nil error, or with one that is only half there.
ErrorsRead ==
  CASE collector = "idle"      -> {"missing"}
    [] collector = "appending" -> {"missing", "nil", "half"}
    [] collector = "appended"  -> {"error"}

\* wg.Wait in pipeToProcess, and what serializeFunction and Run make of errors.
\* With an error they return without cmd.Wait; a nil error and a nil body are a
\* 200, and half an error panics in err.Error().
AwaitPipes ==
  /\ pc = "pipes" /\ PipesEnded
  /\ \E e \in ErrorsRead :
       CASE e = "missing" -> pc' = "wait" /\ UNCHANGED <<ctxDone, answer>>
         [] e = "error"   -> Return("error")
         [] e = "nil"     -> Return("empty")
         [] e = "half"    -> Return("aborted")
  /\ UNCHANGED <<cfg, body, watcher, process, reaped, stdin, stdout, goroutines>>

\* cmd.Wait: the process first, then the copying goroutines of streaming mode.
ReapProcess ==
  /\ pc = "wait" /\ ~reaped /\ alive["child"] = "exited"
  /\ reaped' = TRUE
  /\ UNCHANGED <<cfg, pc, body, context, process, stdin, stdout, goroutines, answer>>

\* Mutant: the exit status is not looked at.
WaitErrorOfContext == watcher = "killed"

WaitError == status # "ok" \/ watcher = "killed"

\* Mutant: the request is answered when the pipes have ended.
WaitedForPipes == PipesEnded

Waited == reaped /\ PipesEnded

WaitReturns ==
  /\ pc = "wait" /\ Waited
  /\ Return(CASE ~cfg.serializing -> "streamed"
              [] cfg.serializing /\ WaitError -> "error"
              [] OTHER -> "output")
  /\ UNCHANGED <<cfg, body, watcher, process, reaped, stdin, stdout, goroutines>>

-----------------------------------------------------------------------------
(* The goroutines: stdin, stdout, the errors of both, and the context. *)

WriteStdin ==
  /\ writer = "run" /\ inPut < bodyRead /\ inEnds # {} /\ inBuf < PipeCap
  /\ inPut' = inPut + 1 /\ inBuf' = inBuf + 1
  /\ UNCHANGED <<cfg, pc, body, context, process, reaped, stdout, goroutines, answer>>

\* EPIPE is an error in serializing mode; os/exec ignores it in streaming mode.
StdinBroken ==
  /\ writer = "run" /\ inPut < bodyRead /\ inEnds = {}
  /\ writer' = IF cfg.serializing THEN "sending" ELSE "done"
  /\ UNCHANGED <<cfg, pc, body, context, process, reaped, stdin, stdout, reader,
                 collector, answer>>

CloseStdin ==
  /\ writer = "run" /\ inPut = bodyRead /\ bodyEnd # "open"
  /\ writer' = "done"
  /\ UNCHANGED <<cfg, pc, body, context, process, reaped, stdin, stdout, reader,
                 collector, answer>>

\* Mutant: stdout is read when stdin has been written.
ReaderAfterWriter == reader = "run" /\ writer = "done"

ReaderReady == reader = "run"

\* Mutant: a byte is read and dropped.
DropByte == outBuf' = outBuf - 1 /\ UNCHANGED got

TakeByte == outBuf' = outBuf - 1 /\ got' = got + 1

ReadStdout ==
  /\ ReaderReady /\ outBuf > 0
  /\ TakeByte
  /\ UNCHANGED <<cfg, pc, body, context, process, reaped, stdin, written, goroutines, answer>>

StdoutEnds ==
  /\ ReaderReady /\ outBuf = 0 /\ outEnds = {}
  /\ reader' = "eof"
  /\ UNCHANGED <<cfg, pc, body, context, process, reaped, stdin, stdout, writer,
                 collector, answer>>

\* A failed read, or in streaming mode a failed write to the client.
StdoutFails ==
  /\ ReaderReady
  /\ reader' = IF cfg.serializing THEN "sending" ELSE "failed"
  /\ UNCHANGED <<cfg, pc, body, context, process, reaped, stdin, stdout, writer,
                 collector, answer>>

\* c <- err meets the collector's receive; a second error leaves errors[0] alone.
SendError ==
  /\ collector # "appending"
  /\ \/ writer = "sending" /\ writer' = "done" /\ UNCHANGED reader
     \/ reader = "sending" /\ reader' = "failed" /\ UNCHANGED writer
  /\ collector' = IF collector = "idle" THEN "appending" ELSE collector
  /\ UNCHANGED <<cfg, pc, body, context, process, reaped, stdin, stdout, answer>>

AppendError ==
  /\ collector = "appending"
  /\ collector' = "appended"
  /\ UNCHANGED <<cfg, pc, body, context, process, reaped, stdin, stdout, writer, reader, answer>>

\* Program p ends: its ends of the pipes are closed.
End(p) ==
  /\ alive' = [alive EXCEPT ![p] = "exited"]
  /\ inEnds' = inEnds \ {p} /\ outEnds' = outEnds \ {p}

\* Killing a process that is not yet reaped succeeds, also when it has exited.
KillOnDone ==
  /\ watcher = "watch" /\ ctxDone
  /\ watcher' = IF reaped THEN "late" ELSE "killed"
  /\ IF alive["child"] = "running"
       THEN End("child") /\ status' = "failed"
       ELSE UNCHANGED process
  /\ UNCHANGED <<cfg, pc, body, ctxDone, reaped, stdin, stdout, goroutines, answer>>

-----------------------------------------------------------------------------
(* The programs. *)

ProgramReads(p) ==
  /\ p \in inEnds /\ inBuf > 0
  /\ inBuf' = inBuf - 1
  /\ UNCHANGED <<cfg, pc, body, context, process, reaped, inPut, stdout, goroutines, answer>>

ProgramWrites(p) ==
  /\ p \in outEnds /\ outBuf < PipeCap /\ written < OutLen
  /\ cfg.serializing \/ reader # "failed"   \* else the read end is closed
  /\ written' = written + 1 /\ outBuf' = outBuf + 1
  /\ UNCHANGED <<cfg, pc, body, context, process, reaped, stdin, got, goroutines, answer>>

ProgramCloses(p) ==
  /\ \/ p \in inEnds /\ inEnds' = inEnds \ {p} /\ UNCHANGED outEnds
     \/ p \in outEnds /\ outEnds' = outEnds \ {p} /\ UNCHANGED inEnds
  /\ UNCHANGED <<cfg, pc, body, context, alive, status, reaped, stdin, stdout, goroutines, answer>>

\* The child leaves a process behind that inherits the pipes it holds.
LeaveHeir ==
  /\ alive["child"] = "running" /\ alive["heir"] = "none"
  /\ alive' = [alive EXCEPT !["heir"] = "running"]
  /\ inEnds' = IF "child" \in inEnds THEN Programs ELSE inEnds
  /\ outEnds' = IF "child" \in outEnds THEN Programs ELSE outEnds
  /\ UNCHANGED <<cfg, pc, body, context, status, reaped, stdin, stdout, goroutines, answer>>

ProgramExits(p) ==
  /\ alive[p] = "running"
  /\ End(p)
  /\ IF p = "child" THEN status' \in {"ok", "failed"} ELSE UNCHANGED status
  /\ UNCHANGED <<cfg, pc, body, context, reaped, stdin, stdout, goroutines, answer>>

-----------------------------------------------------------------------------

\* The steps of the watchdog, its timer and its server's read_timeout.
Watchdog ==
  \/ BodyIsRead \/ StartFails \/ StartSucceeds \/ AwaitPipes \/ ReapProcess \/ WaitReturns
Writer == ReadBody \/ WriteStdin \/ StdinBroken \/ CloseStdin
Reader == ReadStdout \/ StdoutEnds

Function ==
  \/ LeaveHeir
  \/ \E p \in Programs : ProgramReads(p) \/ ProgramWrites(p) \/ ProgramCloses(p) \/ ProgramExits(p)

Next ==
  \/ TimerFires \/ Watchdog \/ Writer \/ Reader \/ StdoutFails \/ SendError \/ AppendError
  \/ KillOnDone \/ Function

\* Goroutines that can run do, and timers fire.  The programs owe nothing.
Fairness ==
  /\ WF_vars(TimerFires)
  /\ WF_vars(Watchdog)
  /\ WF_vars(Writer)
  /\ WF_vars(Reader)
  /\ WF_vars(SendError)
  /\ WF_vars(AppendError)
  /\ WF_vars(KillOnDone)

Spec == Init /\ [][Next]_vars /\ Fairness

-----------------------------------------------------------------------------
(* Properties. *)

\* Every variable has its type, and no byte of stdout is invented or lost in the pipe.
TypeOK ==
  /\ cfg \in Configs
  /\ pc \in {"body", "fork", "pipes", "wait", "done"}
  /\ bodyRead \in 0..BodyLen /\ bodyEnd \in {"open", "eof", "error"}
  /\ ctxDone \in BOOLEAN /\ watcher \in {"none", "watch", "killed", "late"}
  /\ alive \in [Programs -> {"none", "running", "exited"}]
  /\ status \in {"none", "ok", "failed"} /\ reaped \in BOOLEAN
  /\ inEnds \in SUBSET Programs /\ outEnds \in SUBSET Programs
  /\ inPut \in 0..bodyRead /\ inBuf \in 0..PipeCap /\ inBuf <= inPut
  /\ written \in 0..OutLen /\ outBuf \in 0..PipeCap /\ got \in Nat /\ got + outBuf = written
  /\ writer \in {"none", "run", "sending", "done"}
  /\ reader \in {"none", "run", "sending", "eof", "failed"}
  /\ collector \in {"idle", "appending", "appended"}
  /\ answer \in {"none", "output", "streamed", "empty", "error", "aborted"}

\* A serializing 200 with a body is of a function that exited with status 0; unless
\* stdout could not be read or sent on, everything that the function and whatever
\* it left behind wrote is in the response when the handler returns, in both modes.
OutputIsWhole ==
  /\ answer = "output" => status = "ok" /\ reaped
  /\ answer \in {"output", "streamed"} /\ reader = "eof" => got = written /\ outEnds = {}

\* A process that was started is waited for, or it becomes a zombie: only an
\* error on the pipes of a serializing request can leave one.
UnreapedOnlyAfterPipeError ==
  pc = "done" /\ status # "none" /\ ~reaped => cfg.serializing /\ collector # "idle"

\* The function never waits for ever on a full stdout, even while the runner is
\* itself blocked writing the request to its stdin.
StdoutDrained ==
  reader = "run" /\ outBuf = PipeCap ~> reader # "run" \/ outBuf < PipeCap

\* With an exec_timeout every request is answered, unless the function left a
\* process behind that keeps its pipes open, and no function is left running, not
\* even when a broken pipe answers the request without waiting for the function.
DeadlineEndsInvocation ==
  cfg.timeout ~> alive["child"] # "running" /\ (pc = "done" \/ alive["heir"] = "running")

\* README: streaming answers 200 "unless there is an issue forking the process".
ForkFailureReported ==
  alive["child"] = "none" => answer # "streamed"

\* What has become of the function, and what the client has been told of it.
Outcome == IF alive["child"] = "exited" THEN status ELSE alive["child"]

Told ==
  CASE answer \in {"none", "output", "error"} -> answer
    [] answer \in {"streamed", "empty", "aborted"} -> "void"

\* One start, one answer, and output only of a function that succeeded.
Runner == INSTANCE Invocation WITH function <- Outcome, answer <- Told
RefinesInvocation == Runner!Spec

=============================================================================

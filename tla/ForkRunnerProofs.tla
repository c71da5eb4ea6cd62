-------------------------- MODULE ForkRunnerProofs --------------------------
(***************************************************************************)
(* Proofs about ForkRunner for both modes, every length of the body and of *)
(* the output, and every capacity of the pipes.                            *)
(*                                                                         *)
(* RunInv relates the handler to what it started: no process and no        *)
(* goroutine before the fork, no answer before the return, a status        *)
(* exactly when the function has exited, and an end of the output only     *)
(* when nobody can write any more.                                         *)
(***************************************************************************)
EXTENDS ForkRunner, TLAPS

\* Before the fork there is no process, and no goroutine on its pipes.
ForkInv ==
  pc \in {"body", "fork"} => alive["child"] = "none" /\ writer = "none" /\ reader = "none"

\* The handler's own steps in serializing mode, and the answer with its return.
HandlerInv ==
  /\ pc \in {"body", "pipes"} => cfg.serializing
  /\ answer = "none" <=> pc # "done"
  /\ answer = "streamed" => ~cfg.serializing

\* The function has a status exactly when it has exited, and Wait has only then
\* returned it.
StatusInv ==
  /\ status # "none" <=> alive["child"] = "exited"
  /\ reaped => status # "none"
  /\ answer = "output" => status = "ok" /\ reaped

\* A handler that returned with its process unreaped has met an error on a pipe.
ReapInv ==
  pc = "done" /\ alive["child"] # "none" /\ ~reaped => cfg.serializing /\ collector # "idle"

\* The end of stdout was read when the pipe was empty and had no writer.
EndInv == reader = "eof" => outBuf = 0 /\ outEnds = {}

RunInv == TypeOK /\ ForkInv /\ HandlerInv /\ StatusInv /\ ReapInv /\ EndInv

\* What Run makes of the errors: it goes on to Wait, or the collector has received
\* one and the request is answered, though not with the function's output.
LEMMA AwaitOutcome ==
  ASSUME TypeOK, AwaitPipes
  PROVE  /\ \/ pc' = "wait" /\ UNCHANGED <<ctxDone, answer>>
            \/ /\ collector # "idle" /\ pc' = "done"
               /\ answer' \in {"error", "empty", "aborted"} /\ CancelContext
         /\ pc = "pipes"
         /\ UNCHANGED <<cfg, body, watcher, process, reaped, stdin, stdout, goroutines>>
<1>1. PICK e \in ErrorsRead :
        CASE e = "missing" -> pc' = "wait" /\ UNCHANGED <<ctxDone, answer>>
          [] e = "error"   -> Return("error")
          [] e = "nil"     -> Return("empty")
          [] e = "half"    -> Return("aborted")
  BY DEF AwaitPipes
<1>2. e \in {"missing", "error", "nil", "half"} /\ (e # "missing" => collector # "idle")
  BY DEF TypeOK, ErrorsRead
<1>3. QED
  BY <1>1, <1>2 DEF Return, AwaitPipes

\* A program that ends is gone from the pipes, and the other is as it was.
LEMMA EndEffect ==
  ASSUME TypeOK, NEW p \in Programs, End(p)
  PROVE  /\ alive' = [alive EXCEPT ![p] = "exited"]
         /\ alive' \in [Programs -> {"none", "running", "exited"}]
         /\ inEnds' \in SUBSET Programs /\ outEnds' \in SUBSET outEnds
<1>1. inEnds \in SUBSET Programs /\ outEnds \in SUBSET Programs
  BY DEF TypeOK
<1>2. inEnds' \in SUBSET Programs /\ outEnds' \in SUBSET outEnds
  BY <1>1, Zenon DEF End
<1>3. QED
  BY <1>2 DEF End, TypeOK

\* Every step keeps the types, and the balance of the pipe of stdout.
LEMMA TypeStep == TypeOK /\ [Next]_vars => TypeOK'
<1> SUFFICES ASSUME TypeOK, [Next]_vars PROVE TypeOK'
  OBVIOUS
<1> USE ForkRunnerAssumption
    DEF TypeOK, Programs, body, context, process, stdin, stdout, goroutines
<1>0. cfg \in Config
  OBVIOUS
<1>1. CASE TimerFires
  BY <1>1 DEF TimerFires
<1>2. CASE BodyIsRead
  <2>1. ctxDone' \in BOOLEAN
    BY <1>0, <1>2, Zenon DEF BodyIsRead, Return, CancelContext, Config
  <2>2. QED
    BY <1>2, <2>1 DEF BodyIsRead, Return
<1>3. CASE StartFails
  <2>1. ctxDone' \in BOOLEAN
    BY <1>0, <1>3, Zenon DEF StartFails, Return, CancelContext, Config
  <2>2. QED
    BY <1>3, <2>1 DEF StartFails, Return
<1>4. CASE StartSucceeds
  BY <1>4 DEF StartSucceeds, Watcher
<1>5. CASE AwaitPipes
  <2>1. ctxDone' \in BOOLEAN
    <3>1. cfg.timeout \in BOOLEAN /\ ctxDone \in BOOLEAN
      BY <1>0 DEF Config
    <3>2. ctxDone' = ctxDone \/ ctxDone' = (ctxDone \/ cfg.timeout)
      BY <1>5, AwaitOutcome DEF CancelContext
    <3>3. QED
      BY <3>1, <3>2
  <2>2. /\ pc' \in {"wait", "done"}
        /\ answer' \in {"none", "output", "streamed", "empty", "error", "aborted"}
        /\ UNCHANGED <<cfg, body, watcher, process, reaped, stdin, stdout, goroutines>>
    BY <1>5, AwaitOutcome
  <2>3. QED
    BY <2>1, <2>2
<1>6. CASE ReapProcess
  BY <1>6 DEF ReapProcess
<1>7. CASE WaitReturns
  <2>1. ctxDone' \in BOOLEAN
    BY <1>0, <1>7, Zenon DEF WaitReturns, Return, CancelContext, Config
  <2>2. QED
    BY <1>7, <2>1 DEF WaitReturns, Return
<1>8. CASE ReadBody
  BY <1>8 DEF ReadBody
<1>9. CASE WriteStdin
  BY <1>9 DEF WriteStdin
<1>10. CASE StdinBroken
  BY <1>10 DEF StdinBroken
<1>11. CASE CloseStdin
  BY <1>11 DEF CloseStdin
<1>12. CASE ReadStdout
  BY <1>12 DEF ReadStdout, TakeByte
<1>13. CASE StdoutEnds
  BY <1>13 DEF StdoutEnds
<1>14. CASE StdoutFails
  BY <1>14 DEF StdoutFails
<1>15. CASE SendError
  BY <1>15 DEF SendError
<1>16. CASE AppendError
  BY <1>16 DEF AppendError
<1>17. CASE KillOnDone
  <2>1. watcher' \in {"killed", "late"} /\ UNCHANGED <<ctxDone, reaped>>
    BY <1>17 DEF KillOnDone
  <2>2. /\ alive' \in [Programs -> {"none", "running", "exited"}]
        /\ status' \in {"ok", "failed", "none"}
        /\ inEnds' \in SUBSET Programs /\ outEnds' \in SUBSET Programs
    BY <1>17, EndEffect DEF KillOnDone
  <2>3. QED
    BY <1>17, <2>1, <2>2 DEF KillOnDone
<1>18. CASE LeaveHeir
  BY <1>18 DEF LeaveHeir
<1>19. ASSUME NEW p \in Programs, ProgramReads(p) PROVE TypeOK'
  BY <1>19 DEF ProgramReads
<1>20. ASSUME NEW p \in Programs, ProgramWrites(p) PROVE TypeOK'
  BY <1>20 DEF ProgramWrites
<1>21. ASSUME NEW p \in Programs, ProgramCloses(p) PROVE TypeOK'
  <2>1. inEnds' \in SUBSET Programs /\ outEnds' \in SUBSET Programs
    BY <1>21, Zenon DEF ProgramCloses
  <2>2. QED
    BY <1>21, <2>1 DEF ProgramCloses
<1>22. ASSUME NEW p \in Programs, ProgramExits(p) PROVE TypeOK'
  <2>1. /\ alive' \in [Programs -> {"none", "running", "exited"}]
        /\ inEnds' \in SUBSET Programs /\ outEnds' \in SUBSET Programs
    BY <1>22, EndEffect DEF ProgramExits
  <2>2. QED
    BY <1>22, <2>1 DEF ProgramExits
<1>23. CASE UNCHANGED vars
  BY <1>23 DEF vars
<1>24. QED
  BY <1>1, <1>2, <1>3, <1>4, <1>5, <1>6, <1>7, <1>8, <1>9, <1>10, <1>11, <1>12,
     <1>13, <1>14, <1>15, <1>16, <1>17, <1>18, <1>19, <1>20, <1>21, <1>22, <1>23
  DEF Next, Watchdog, Writer, Reader, Function

\* Every step keeps what ties the handler to the processes and the goroutines.
LEMMA RunStep == RunInv /\ [Next]_vars => RunInv'
<1> DEFINE Ties == ForkInv /\ HandlerInv /\ StatusInv /\ ReapInv /\ EndInv
<1> SUFFICES ASSUME RunInv, [Next]_vars PROVE Ties'
  BY TypeStep DEF RunInv
<1>0. /\ TypeOK /\ Ties
      /\ alive \in [Programs -> {"none", "running", "exited"}]
      /\ status \in {"none", "ok", "failed"} /\ "child" \in Programs
  BY DEF RunInv, TypeOK, Programs
<1> USE DEF ForkInv, HandlerInv, StatusInv, ReapInv, EndInv,
            body, context, process, stdin, stdout, goroutines
<1>1. CASE TimerFires \/ ReadBody \/ WriteStdin \/ AppendError \/ UNCHANGED vars
  BY <1>0, <1>1 DEF TimerFires, ReadBody, WriteStdin, AppendError, vars
<1>2. CASE BodyIsRead
  BY <1>0, <1>2 DEF BodyIsRead, Return
<1>3. CASE StartFails
  BY <1>0, <1>3 DEF StartFails, Return
<1>4. CASE StartSucceeds
  BY <1>0, <1>4 DEF StartSucceeds
<1>5. CASE AwaitPipes
  BY <1>0, <1>5, AwaitOutcome
<1>6. CASE ReapProcess
  BY <1>0, <1>6 DEF ReapProcess
<1>7. CASE WaitReturns
  BY <1>0, <1>7 DEF WaitReturns, Waited, WaitError, Return
<1>8. CASE StdinBroken \/ CloseStdin
  BY <1>0, <1>8 DEF StdinBroken, CloseStdin
<1>9. CASE ReadStdout
  BY <1>0, <1>9 DEF ReadStdout, ReaderReady, TakeByte
<1>10. CASE StdoutEnds \/ StdoutFails
  BY <1>0, <1>10 DEF StdoutEnds, StdoutFails, ReaderReady
<1>11. CASE SendError
  BY <1>0, <1>11 DEF SendError
<1>12. CASE KillOnDone
  BY <1>0, <1>12, EndEffect DEF KillOnDone
<1>13. CASE LeaveHeir
  BY <1>0, <1>13 DEF LeaveHeir
<1>14. ASSUME NEW p \in Programs, ProgramReads(p) \/ ProgramWrites(p) \/ ProgramCloses(p)
       PROVE  Ties'
  BY <1>0, <1>14 DEF ProgramReads, ProgramWrites, ProgramCloses
<1>15. ASSUME NEW p \in Programs, ProgramExits(p) PROVE Ties'
  BY <1>0, <1>15, EndEffect DEF ProgramExits
<1>16. QED
  BY <1>1, <1>2, <1>3, <1>4, <1>5, <1>6, <1>7, <1>8, <1>9, <1>10, <1>11, <1>12,
     <1>13, <1>14, <1>15
  DEF Next, Watchdog, Writer, Reader, Function

\* The inductive invariant holds of every behaviour.
LEMMA Invariance == Spec => []RunInv
<1>1. Init => RunInv
  <2> SUFFICES ASSUME Init PROVE RunInv
    OBVIOUS
  <2>1. TypeOK
    <3>1. bodyRead \in 0..BodyLen /\ inPut \in 0..bodyRead /\ inBuf \in 0..PipeCap
          /\ written \in 0..OutLen /\ outBuf \in 0..PipeCap
      BY ForkRunnerAssumption DEF Init
    <3>2. alive \in [Programs -> {"none", "running", "exited"}]
          /\ inEnds \in SUBSET Programs /\ outEnds \in SUBSET Programs
      BY DEF Init
    <3>3. pc \in {"body", "fork", "pipes", "wait", "done"}
      BY DEF Init
    <3>4. got \in Nat /\ got + outBuf = written /\ inBuf <= inPut
      BY DEF Init
    <3>5. ctxDone \in BOOLEAN /\ reaped \in BOOLEAN
      BY DEF Init
    <3>6. QED
      BY <3>1, <3>2, <3>3, <3>4, <3>5 DEF Init, TypeOK
  <2>2. alive["child"] = "none" /\ status = "none" /\ writer = "none" /\ reader = "none"
    BY DEF Init, Programs
  <2>3. pc \in {"body", "fork"} /\ answer = "none" /\ ~reaped /\ (pc = "body" => cfg.serializing)
    BY DEF Init
  <2>4. QED
    BY <2>1, <2>2, <2>3 DEF RunInv, ForkInv, HandlerInv, StatusInv, ReapInv, EndInv
<1>2. QED
  BY <1>1, RunStep, PTL DEF Spec

\* The state of a request stays well formed, and stdout's pipe balanced.
THEOREM TypeCorrect == Spec => []TypeOK
<1>1. RunInv => TypeOK
  BY DEF RunInv
<1>2. QED
  BY <1>1, Invariance, PTL

\* A serializing 200 with a body is of a function that succeeded and was reaped.  If
\* stdout was read to its end, it has all that was written; nothing is said of a 200
\* whose read of stdout failed with the error unseen, which may be cut short.
THEOREM WholeOutput == Spec => []OutputIsWhole
<1>1. RunInv => OutputIsWhole
  <2> SUFFICES ASSUME RunInv PROVE OutputIsWhole
    OBVIOUS
  <2>1. reader = "eof" => got = written /\ outEnds = {}
    BY DEF RunInv, EndInv, TypeOK
  <2>2. QED
    BY <2>1 DEF RunInv, StatusInv, OutputIsWhole
<1>2. QED
  BY <1>1, Invariance, PTL

\* Only an error on the pipes of a serializing request leaves a zombie.
THEOREM Reaped == Spec => []UnreapedOnlyAfterPipeError
<1>1. RunInv => UnreapedOnlyAfterPipeError
  BY DEF RunInv, ReapInv, StatusInv, UnreapedOnlyAfterPipeError
<1>2. QED
  BY <1>1, Invariance, PTL

\* Every step of the handler, its goroutines and the function is a step of
\* Invocation or a stutter.
LEMMA InvocationStep ==
  RunInv /\ [Next]_vars => [Runner!Next]_<<Outcome, Told>>
<1> SUFFICES ASSUME RunInv, [Next]_vars
             PROVE  Runner!Next \/ UNCHANGED <<Outcome, Told>>
  BY Zenon
<1>0. /\ TypeOK /\ ForkInv /\ HandlerInv /\ StatusInv
      /\ alive \in [Programs -> {"none", "running", "exited"}] /\ "child" \in Programs
  BY DEF RunInv, TypeOK, Programs
<1> USE DEF body, context, process, stdin, stdout, goroutines
<1>1. ASSUME UNCHANGED <<alive, status>>, answer' = answer
      PROVE  UNCHANGED <<Outcome, Told>>
  BY <1>1 DEF Outcome, Told
<1>2. ASSUME UNCHANGED <<alive, status>>, pc # "done",
             answer' \in {"error", "streamed", "empty", "aborted"}
                \/ (answer' = "output" /\ status = "ok")
      PROVE  Runner!Next
  <2>1. Told = "none" /\ UNCHANGED Outcome
    BY <1>0, <1>2 DEF HandlerInv, Told, Outcome
  <2>2. Told' \in {"error", "void"} \/ (Told' = "output" /\ Outcome = "ok")
    BY <1>0, <1>2 DEF Told, Outcome, StatusInv
  <2>3. QED
    BY <2>1, <2>2 DEF Runner!Next, Runner!Answer
<1>3. ASSUME alive["child"] = "running", alive'["child"] = "exited",
             status' \in {"ok", "failed"}, answer' = answer
      PROVE  Runner!Next
  BY <1>3 DEF Runner!Next, Runner!End, Outcome, Told
<1>4. CASE TimerFires \/ ReapProcess \/ Writer \/ Reader \/ StdoutFails \/ SendError
           \/ AppendError \/ UNCHANGED vars
  BY <1>1, <1>4 DEF TimerFires, ReapProcess, Writer, ReadBody, WriteStdin, StdinBroken,
     CloseStdin, Reader, ReadStdout, StdoutEnds, StdoutFails, SendError, AppendError, vars
<1>5. CASE BodyIsRead
  BY <1>1, <1>2, <1>5 DEF BodyIsRead, Return
<1>6. CASE StartFails
  BY <1>2, <1>6 DEF StartFails, Return
<1>7. CASE StartSucceeds
  <2>1. Outcome = "none" /\ Told = "none" /\ Outcome' = "running" /\ UNCHANGED Told
    BY <1>0, <1>7 DEF StartSucceeds, ForkInv, HandlerInv, Outcome, Told
  <2>2. QED
    BY <2>1 DEF Runner!Next, Runner!Start
<1>8. CASE AwaitPipes
  BY <1>0, <1>1, <1>2, <1>8, AwaitOutcome
<1>9. CASE WaitReturns
  BY <1>2, <1>9 DEF WaitReturns, WaitError, Return
<1>10. CASE KillOnDone
  <2>1. CASE alive["child"] = "running"
    BY <1>0, <1>3, <1>10, <2>1, EndEffect DEF KillOnDone
  <2>2. CASE alive["child"] # "running"
    BY <1>1, <1>10, <2>2 DEF KillOnDone
  <2>3. QED
    BY <2>1, <2>2
<1>11. CASE LeaveHeir
  BY <1>0, <1>11 DEF LeaveHeir, Outcome, Told
<1>12. ASSUME NEW p \in Programs, ProgramReads(p) \/ ProgramWrites(p) \/ ProgramCloses(p)
       PROVE  UNCHANGED <<Outcome, Told>>
  BY <1>1, <1>12 DEF ProgramReads, ProgramWrites, ProgramCloses
<1>13. ASSUME NEW p \in Programs, ProgramExits(p)
       PROVE  Runner!Next \/ UNCHANGED <<Outcome, Told>>
  <2>1. CASE p = "child"
    BY <1>0, <1>3, <1>13, <2>1, EndEffect DEF ProgramExits
  <2>2. CASE p # "child"
    BY <1>0, <1>13, <2>2, EndEffect DEF ProgramExits, Outcome, Told
  <2>3. QED
    BY <2>1, <2>2
<1>14. QED
  BY <1>4, <1>5, <1>6, <1>7, <1>8, <1>9, <1>10, <1>11, <1>12, <1>13
  DEF Next, Watchdog, Function

\* The fork runners implement Invocation: one start, one answer, and output only
\* of a function that has succeeded, however the goroutines interleave.
THEOREM ImplementsInvocation == Spec => RefinesInvocation
<1>1. Init => Runner!Init
  BY DEF Init, Runner!Init, Outcome, Told, Programs
<1>2. QED
  BY <1>1, InvocationStep, Invariance, PTL DEF Spec, RefinesInvocation, Runner!Spec

=============================================================================

---------------------------- MODULE HTTPRunProofs ----------------------------
(***************************************************************************)
(* Proofs about HTTPRun for every request, timeout and header value, and   *)
(* any number of idle connections.                                         *)
(*                                                                         *)
(* RunInv says where the handler can be with what it knows of the          *)
(* function, that the clock of a timed call stops at its timeout, and that *)
(* a call which may be followed by another has used up an idle connection. *)
(***************************************************************************)
EXTENDS HTTPRun, TLAPS

\* No answer before the handler's last steps, and no call before its first.
HandlerInv ==
  /\ status = "none" <=> pc \notin {"copy", "done"}
  /\ pc \in {"buffer", "new"} => function = "none" /\ calls = 0 /\ ~reused
  /\ pc = "call" => function \in {"none", "failed"}
  /\ pc = "call" \/ reused => req.path # "inproc"
  /\ pc = "await" => function # "none"

\* The clock of the runner's own call stops at the timeout, and 504 is for that
\* call, when its context is done.
ClockInv ==
  /\ req.path = "client" /\ Timeout > 0 => elapsed <= Timeout
  /\ req.path = "client" /\ deadline => Timeout > 0 /\ elapsed = Timeout
  /\ status = "504" => req.path = "client" /\ (clientGone \/ deadline)

\* A call that may be followed by another was made on an idle connection.
CallInv ==
  /\ calls + idle <= MaxIdle + 1
  /\ pc = "call" \/ reused => calls + idle <= MaxIdle

RunInv == TypeOK /\ HandlerInv /\ ClockInv /\ CallInv

\* What the assumption says of the request at hand.
LEMMA RequestType ==
  ASSUME req \in Requests
  PROVE  /\ req.path \in {"client", "proxy", "inproc"}
         /\ req.execTimeout \in Int /\ req.execTimeout <= MaxElapsed
         /\ req.xTimeout # <<>> => req.xTimeout[1] \in Int
         /\ req.buffer \in BOOLEAN /\ req.replayable \in BOOLEAN
BY HTTPRunAssumption DEF Request

\* The timeout of a request is its exec_timeout or a header that is not longer; the
\* runner's own call has a positive one just when the request is limited, and then it is
\* what was asked for.
LEMMA TimeoutType ==
  ASSUME req \in Requests
  PROVE  /\ Timeout \in Int /\ Timeout <= MaxElapsed
         /\ Limited <=> req.path = "client" /\ Timeout > 0
         /\ Limited => Timeout = Asked
<1>1. /\ req.execTimeout \in Int /\ req.execTimeout <= MaxElapsed
      /\ req.xTimeout # <<>> => req.xTimeout[1] \in Int
  BY RequestType
<1>2. MaxElapsed \in Int
  BY HTTPRunAssumption
<1>3. QED
  BY <1>1, <1>2 DEF Timeout, Asked, Limited

\* Every step keeps the types.
LEMMA TypeStep == RunInv /\ [Next]_vars => TypeOK'
<1> SUFFICES ASSUME RunInv, [Next]_vars PROVE TypeOK'
  OBVIOUS
<1>0. TypeOK /\ req \in Requests /\ Timeout \in Int /\ MaxIdle \in Nat /\ MaxElapsed \in Nat
  BY TimeoutType, HTTPRunAssumption DEF RunInv, TypeOK
<1> USE DEF TypeOK, client, clock, upstream
<1>1. ASSUME req' = req PROVE Timeout' = Timeout
  BY <1>1 DEF Timeout
<1>2. CASE Tick
  BY <1>0, <1>1, <1>2 DEF Tick
<1>3. CASE TimerFires
  <2>1. Timeout' = Timeout /\ (Timeout > 0 \/ req.path = "inproc")
    BY <1>1, <1>3 DEF TimerFires, Timed
  <2>2. QED
    BY <1>0, <1>3, <2>1 DEF TimerFires
<1>4. CASE ClientLeaves \/ ClientBodyEnds
  <2>1. clientBody' \in {"open", "whole", "cut"} /\ clientGone' \in BOOLEAN
    BY <1>0, <1>4 DEF ClientLeaves, ClientBodyEnds
  <2>2. UNCHANGED <<req, pc, clock, upstream, status>>
    BY <1>4 DEF ClientLeaves, ClientBodyEnds
  <2>3. QED
    BY <1>0, <1>1, <2>1, <2>2
<1>5. CASE BufferBody \/ NewRequestFails \/ CallFails \/ Retry \/ AwaitFails
           \/ Respond \/ HandlerPanics \/ CopyEnds \/ CopyCancelled
  BY <1>0, <1>1, <1>5 DEF BufferBody, NewRequestFails, CallFails, Retry, AwaitFails,
     Respond, HandlerPanics, CopyEnds, CopyCancelled
<1>6. CASE NewRequest
  BY <1>0, <1>1, <1>6 DEF NewRequest
<1>7. CASE Call
  <2>1. calls \in Nat /\ idle \in Nat /\ calls + idle <= MaxIdle
    BY <1>0, <1>7 DEF Call, RunInv, CallInv
  <2>2. calls' \in 0..(MaxIdle + 1) /\ idle' \in 0..MaxIdle
    BY <1>0, <1>7, <2>1 DEF Call
  <2>3. reused' \in BOOLEAN
    BY <1>7 DEF Call
  <2>4. QED
    BY <1>0, <1>1, <1>7, <2>2, <2>3 DEF Call
<1>8. CASE ReplyFailed
  BY <1>0, <1>1, <1>8 DEF ReplyFailed, FailedStatus
<1>9. CASE UpstreamEnds
  BY <1>0, <1>1, <1>9 DEF UpstreamEnds
<1>10. CASE UNCHANGED vars
  BY <1>0, <1>1, <1>10 DEF vars
<1>11. QED
  BY <1>2, <1>3, <1>4, <1>5, <1>6, <1>7, <1>8, <1>9, <1>10 DEF Next, Handler

\* Every step keeps the ties between the handler, the clock and the calls.
LEMMA RunStep == RunInv /\ [Next]_vars => RunInv'
<1> DEFINE Ties == HandlerInv /\ ClockInv /\ CallInv
<1> SUFFICES ASSUME RunInv, [Next]_vars PROVE Ties'
  BY TypeStep DEF RunInv
<1>0. /\ TypeOK /\ Ties /\ TypeOK'
      /\ req \in Requests /\ Timeout \in Int /\ MaxIdle \in Nat
      /\ calls \in Nat /\ idle \in Nat /\ elapsed \in Nat
  BY TypeStep, TimeoutType, HTTPRunAssumption DEF RunInv, TypeOK
<1> USE DEF HandlerInv, ClockInv, CallInv, client, clock, upstream
<1>1. ASSUME req' = req
      PROVE  Timeout' = Timeout
  BY <1>1 DEF Timeout
<1>2. CASE Tick
  BY <1>0, <1>1, <1>2 DEF Tick, Timed
<1>3. CASE TimerFires
  BY <1>0, <1>1, <1>3 DEF TimerFires, Timed
<1>4. CASE ClientLeaves \/ ClientBodyEnds
  BY <1>0, <1>1, <1>4 DEF ClientLeaves, ClientBodyEnds
<1>5. CASE BufferBody \/ NewRequestFails \/ CallFails \/ CopyEnds \/ CopyCancelled
  BY <1>0, <1>1, <1>5 DEF BufferBody, NewRequestFails, CallFails, CopyEnds, CopyCancelled
<1>6. CASE NewRequest
  <2>1. calls = 0 /\ ~reused /\ status = "none" /\ idle <= MaxIdle /\ UNCHANGED <<idle, reused>>
    BY <1>0, <1>6 DEF NewRequest, TypeOK
  <2>2. CASE req.path = "inproc"
    BY <1>0, <1>1, <1>6, <2>1, <2>2 DEF NewRequest
  <2>3. CASE req.path # "inproc"
    BY <1>0, <1>1, <1>6, <2>1, <2>3 DEF NewRequest
  <2>4. QED
    BY <2>2, <2>3
<1>7. CASE Call
  BY <1>0, <1>1, <1>7 DEF Call
<1>8. CASE Retry
  BY <1>0, <1>1, <1>8 DEF Retry, Retries
<1>9. CASE AwaitFails \/ Respond \/ HandlerPanics
  BY <1>0, <1>1, <1>9 DEF AwaitFails, Respond, HandlerPanics
<1>10. CASE ReplyFailed
  BY <1>0, <1>1, <1>10 DEF ReplyFailed, FailedStatus
<1>11. CASE UpstreamEnds
  BY <1>0, <1>1, <1>11 DEF UpstreamEnds
<1>12. CASE UNCHANGED vars
  BY <1>0, <1>1, <1>12 DEF vars
<1>13. QED
  BY <1>2, <1>3, <1>4, <1>5, <1>6, <1>7, <1>8, <1>9, <1>10, <1>11, <1>12
  DEF Next, Handler

\* The inductive invariant holds of every behaviour.
LEMMA Invariance == Spec => []RunInv
<1>1. Init => RunInv
  <2> SUFFICES ASSUME Init PROVE RunInv
    OBVIOUS
  <2>1. MaxIdle \in Nat /\ MaxElapsed \in Nat /\ req \in Requests /\ Timeout \in Int
    BY TimeoutType, HTTPRunAssumption DEF Init
  <2>2. pc \in {"buffer", "new"} /\ clientBody \in {"open", "whole", "cut"}
    BY DEF Init
  <2>3. TypeOK
    <3>1. elapsed \in 0..MaxElapsed /\ idle \in 0..MaxIdle /\ calls \in 0..(MaxIdle + 1)
      BY <2>1 DEF Init
    <3>2. clientGone \in BOOLEAN /\ reused \in BOOLEAN /\ deadline \in BOOLEAN /\ ~deadline
      BY DEF Init
    <3>3. /\ pc \in {"buffer", "new", "call", "await", "failed", "copy", "done"}
          /\ function \in {"none", "running", "ok", "failed"}
          /\ status \in {"none", "upstream", "500", "504", "empty", "aborted"}
      BY <2>2 DEF Init
    <3>4. QED
      BY <2>1, <2>2, <3>1, <3>2, <3>3 DEF TypeOK
  <2>4. HandlerInv
    BY <2>2 DEF Init, HandlerInv
  <2>5. ClockInv
    <3>1. elapsed = 0 /\ deadline = FALSE /\ status = "none"
      BY DEF Init
    <3>2. QED
      BY <2>1, <3>1 DEF ClockInv
  <2>6. CallInv
    <3>1. idle \in 0..MaxIdle /\ calls = 0 /\ reused = FALSE
      BY <2>1 DEF Init
    <3>2. QED
      BY <2>1, <2>2, <3>1 DEF CallInv
  <2>7. QED
    BY <2>3, <2>4, <2>5, <2>6 DEF RunInv
<1>2. QED
  BY <1>1, RunStep, PTL DEF Spec

\* The state of a request stays well formed.
THEOREM TypeCorrect == Spec => []TypeOK
<1>1. RunInv => TypeOK
  BY DEF RunInv
<1>2. QED
  BY <1>1, Invariance, PTL

\* A request with a limit is not waited for past it, and a client that stays is told
\* 504 at that moment only, and never without a limit, for every exec_timeout and
\* X-Timeout.  That the answer comes is HandlerFreed, which TLC checks.
THEOREM TimesOut == Spec => []TimesOutWhenAsked
<1>1. RunInv => TimesOutWhenAsked
  <2> SUFFICES ASSUME RunInv PROVE TimesOutWhenAsked
    OBVIOUS
  <2>1. /\ Limited <=> req.path = "client" /\ Timeout > 0
        /\ Limited => Timeout = Asked
    BY TimeoutType DEF RunInv, TypeOK
  <2>2. Limited => elapsed <= Asked
    BY <2>1 DEF RunInv, ClockInv
  <2>3. ASSUME status = "504", ~clientGone PROVE Limited /\ elapsed = Asked
    BY <2>1, <2>3 DEF RunInv, ClockInv
  <2>4. QED
    BY <2>2, <2>3 DEF TimesOutWhenAsked
<1>2. QED
  BY <1>1, Invariance, PTL

\* Every step of the handler, the client, the clock and the upstream is a step of
\* Invocation or a stutter: a call that fails is over only when no other follows.
LEMMA InvocationStep ==
  RunInv /\ [Next]_vars => [Runner!Next]_<<Outcome, Told>>
<1> SUFFICES ASSUME RunInv, [Next]_vars
             PROVE  Runner!Next \/ UNCHANGED <<Outcome, Told>>
  BY Zenon
<1>0. TypeOK /\ HandlerInv /\ function \in {"none", "running", "ok", "failed"}
  BY DEF RunInv, TypeOK
<1> USE DEF client, clock, upstream
<1>1. ASSUME UNCHANGED <<req, function, reused>>, (pc = "call") <=> (pc' = "call"),
             UNCHANGED <<clientGone, deadline>>
      PROVE  UNCHANGED Outcome
  BY <1>1 DEF Outcome, Retries, Replayable, CallDone
<1>2. ASSUME UNCHANGED status PROVE UNCHANGED Told
  BY <1>2 DEF Told
<1>3. ASSUME UNCHANGED <<req, function, reused, pc, status>>, CallDone => CallDone'
      PROVE  Runner!Next \/ UNCHANGED <<Outcome, Told>>
  <2>1. Outcome' = Outcome \/ (Outcome = "running" /\ Outcome' = "failed")
    BY <1>3 DEF Outcome, Retries, Replayable
  <2>2. QED
    BY <1>2, <1>3, <2>1 DEF Runner!Next, Runner!End
<1>4. CASE Tick \/ ClientBodyEnds \/ BufferBody \/ CopyEnds \/ CopyCancelled \/ AwaitFails
           \/ UNCHANGED vars
  BY <1>1, <1>2, <1>4
  DEF Tick, ClientBodyEnds, BufferBody, CopyEnds, CopyCancelled, AwaitFails, vars
<1>5. CASE TimerFires \/ ClientLeaves
  BY <1>3, <1>5 DEF TimerFires, ClientLeaves, CallDone
<1>6. CASE NewRequest
  <2>1. Outcome = "none" /\ Told = "none" /\ UNCHANGED Told
    BY <1>0, <1>2, <1>6 DEF NewRequest, HandlerInv, Outcome, Told
  <2>2. Outcome' = "running" \/ Outcome' = "none"
    BY <1>0, <1>6 DEF NewRequest, HandlerInv, Outcome
  <2>3. QED
    BY <2>1, <2>2 DEF Runner!Next, Runner!Start
<1>7. CASE Call
  <2>1. Outcome \in {"none", "running"} /\ Told = "none" /\ UNCHANGED Told
    BY <1>0, <1>2, <1>7 DEF Call, HandlerInv, Outcome, Told
  <2>2. Outcome' = "running"
    BY <1>7 DEF Call, Outcome
  <2>3. QED
    BY <2>1, <2>2 DEF Runner!Next, Runner!Start
<1>8. CASE CallFails
  <2>1. UNCHANGED Told
    BY <1>2, <1>8 DEF CallFails
  <2>2. Outcome' = Outcome \/ (Outcome = "running" /\ Outcome' = "failed")
    BY <1>0, <1>8 DEF CallFails, HandlerInv, Outcome
  <2>3. QED
    BY <2>1, <2>2 DEF Runner!Next, Runner!End
<1>9. CASE Retry
  <2>1. UNCHANGED Told
    BY <1>2, <1>9 DEF Retry
  <2>2. Outcome = "running" /\ Outcome' = "running"
    BY <1>9 DEF Retry, Retries, Outcome
  <2>3. QED
    BY <2>1, <2>2
<1>10. ASSUME Told = "none", UNCHANGED Outcome,
              Told' \in {"error", "void"} \/ (Told' = "output" /\ Outcome = "ok")
       PROVE  Runner!Next
  BY <1>10 DEF Runner!Next, Runner!Answer
<1>11. CASE NewRequestFails
  <2>1. Told = "none" /\ Told' = "error" /\ UNCHANGED Outcome
    BY <1>0, <1>1, <1>11 DEF NewRequestFails, HandlerInv, Told
  <2>2. QED
    BY <1>10, <2>1
<1>12. CASE ReplyFailed
  <2>1. Told = "none" /\ Told' \in {"error", "void"}
    BY <1>0, <1>12 DEF ReplyFailed, FailedStatus, HandlerInv, Told
  <2>2. QED
    BY <1>1, <1>10, <1>12, <2>1 DEF ReplyFailed
<1>13. CASE Respond
  <2>1. Told = "none" /\ Told' = "output" /\ Outcome = "ok"
    BY <1>0, <1>13 DEF Respond, HandlerInv, Told, Outcome
  <2>2. QED
    BY <1>1, <1>10, <1>13, <2>1 DEF Respond
<1>14. CASE HandlerPanics
  <2>1. Told = "none" /\ Told' = "void"
    BY <1>0, <1>14 DEF HandlerPanics, HandlerInv, Told
  <2>2. QED
    BY <1>1, <1>10, <1>14, <2>1 DEF HandlerPanics
<1>15. CASE UpstreamEnds
  <2>1. Outcome = "running" /\ Outcome' \in {"running", "ok", "failed"} /\ UNCHANGED Told
    BY <1>0, <1>2, <1>15 DEF UpstreamEnds, Outcome
  <2>2. QED
    BY <2>1 DEF Runner!Next, Runner!End
<1>16. QED
  BY <1>4, <1>5, <1>6, <1>7, <1>8, <1>9, <1>11, <1>12, <1>13, <1>14, <1>15
  DEF Next, Handler

\* The HTTP and in-process runners implement Invocation: one start however often
\* the call is repeated, one answer, and output only of a function that answered.
THEOREM ImplementsInvocation == Spec => RefinesInvocation
<1>1. Init => Runner!Init
  BY DEF Init, Runner!Init, Outcome, Told
<1>2. QED
  BY <1>1, InvocationStep, Invariance, PTL DEF Spec, RefinesInvocation, Runner!Spec

=============================================================================

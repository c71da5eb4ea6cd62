------------------------------ MODULE HTTPRun ------------------------------
(***************************************************************************)
(* One request in the modes that fork no process for it: Run of the HTTP   *)
(* runner (executor/http_runner.go), by its own client or by the standard  *)
(* library's reverse proxy, and Run of the in-process runner               *)
(* (executor/inproc_runner.go).                                            *)
(*                                                                         *)
(* The upstream is the function's HTTP server: it answers, drops the       *)
(* connection or stays silent as it likes.  The client may leave, or stop  *)
(* sending its body.  net/http's transport keeps idle connections and      *)
(* repeats a request that it may repeat when one of them turns out closed. *)
(***************************************************************************)
EXTENDS Integers

CONSTANTS
  Requests,   \* the requests and configurations to explore
  MaxIdle,    \* bound on the idle connections to the upstream
  MaxElapsed  \* bound on the clock, above every timeout of Requests

\* xTimeout: the duration of a well-formed X-Timeout header, or <<>>.
\* replayable: a method without side effects and no body.
Request == [path : {"client", "proxy", "inproc"}, execTimeout : Int,
            xTimeout : {<<>>} \cup [{1} -> Int],
            buffer : BOOLEAN, replayable : BOOLEAN]

ASSUME HTTPRunAssumption ==
  /\ Requests \subseteq Request
  /\ MaxIdle \in Nat /\ MaxElapsed \in Nat
  /\ \A q \in Requests : q.execTimeout <= MaxElapsed

VARIABLES
  req,                \* r and the runner's configuration
  pc,                 \* buffer, new, call, await, failed, copy, done
  clientBody,         \* r.Body: "open", "whole" or "cut"
  clientGone,         \* r.Context() is cancelled
  elapsed, deadline,  \* time since the context was made; its timeout has fired
  idle, reused,       \* idle connections; the call is on one that was idle
  calls, function,    \* requests sent upstream; what became of the last
  status              \* the status the client is told

client == <<clientBody, clientGone>>
clock == <<elapsed, deadline>>
upstream == <<idle, reused, calls, function>>
vars == <<req, pc, client, clock, upstream, status>>

\* exec_timeout is the Dialer's timeout, too: a negative one has always expired.
NeverDials == req.path = "client" /\ req.execTimeout < 0

Init ==
  /\ req \in Requests
  /\ pc = IF req.buffer /\ req.path # "inproc" THEN "buffer" ELSE "new"
  /\ clientBody = IF req.replayable THEN "whole" ELSE "open"
  /\ clientGone = FALSE
  /\ elapsed = 0 /\ deadline = FALSE
  /\ idle \in 0..(IF NeverDials THEN 0 ELSE MaxIdle) /\ reused = FALSE
  /\ calls = 0 /\ function = "none"
  /\ status = "none"

-----------------------------------------------------------------------------
(* The contexts. *)

\* Mutant: the header is not compared with the default.
TimeoutUnchecked == IF req.xTimeout = <<>> THEN req.execTimeout ELSE req.xTimeout[1]

\* getTimeout.  Nothing asks for a positive duration: 0s, or less, is no timeout.
Timeout ==
  IF req.path # "inproc" /\ req.xTimeout # <<>> /\ req.xTimeout[1] <= req.execTimeout
    THEN req.xTimeout[1]
    ELSE req.execTimeout

\* Mutant: context.WithTimeout for every timeout.
AlwaysTimed == TRUE

\* The in-process runner makes a timeout of 0 too, which expires at once.
Timed == req.path = "inproc" \/ Timeout > 0

\* Mutant: the call is made with r's own context.
DoneWithClient == clientGone

\* The context that the call is made with is done: reqCtx, or r's own by the proxy.
CallDone == clientGone \/ (req.path = "client" /\ deadline)

InRun == pc \in {"call", "await", "copy"}

Tick ==
  /\ InRun /\ ~deadline /\ elapsed < MaxElapsed
  /\ Timed => elapsed < Timeout
  /\ elapsed' = elapsed + 1
  /\ UNCHANGED <<req, pc, client, deadline, upstream, status>>

TimerFires ==
  /\ InRun /\ Timed /\ ~deadline /\ elapsed >= Timeout
  /\ deadline' = TRUE
  /\ UNCHANGED <<req, pc, client, elapsed, upstream, status>>

\* The server notices that a client left when it has read the whole body.
ClientLeaves ==
  /\ clientBody = "whole" /\ ~clientGone
  /\ clientGone' = TRUE
  /\ UNCHANGED <<req, pc, clientBody, clock, upstream, status>>

\* The client has sent its body, or read_timeout or a disconnect cut it.
ClientBodyEnds ==
  /\ clientBody = "open"
  /\ clientBody' \in {"whole", "cut"}
  /\ UNCHANGED <<req, pc, clientGone, clock, upstream, status>>

-----------------------------------------------------------------------------
(* The handler. *)

\* io.ReadAll with its error ignored: a body that was cut is passed on as whole.
BufferBody ==
  /\ pc = "buffer" /\ clientBody # "open"
  /\ pc' = "new"
  /\ UNCHANGED <<req, client, clock, upstream, status>>

\* The request for the upstream is built and its context made; in process the
\* handler is called at once.
NewRequest ==
  /\ pc = "new"
  /\ IF req.path = "inproc"
       THEN pc' = "await" /\ function' = "running" /\ calls' = 1
       ELSE pc' = "call" /\ UNCHANGED <<function, calls>>
  /\ UNCHANGED <<req, client, clock, idle, reused, status>>

NewRequestFails ==
  /\ pc = "new" /\ req.path # "inproc"
  /\ pc' = "done" /\ status' = "500"
  /\ UNCHANGED <<req, client, clock, upstream>>

\* Client.Do or the proxy's transport: an idle connection, or a new one.
Call ==
  /\ pc = "call" /\ ~CallDone
  /\ \/ idle > 0 /\ idle' = idle - 1 /\ reused' = TRUE
     \/ ~NeverDials /\ idle' = idle /\ reused' = FALSE
  /\ pc' = "await" /\ calls' = calls + 1 /\ function' = "running"
  /\ UNCHANGED <<req, client, clock, status>>

\* No connection to be had, or no time left for one.
CallFails ==
  /\ pc = "call"
  /\ pc' = "failed"
  /\ UNCHANGED <<req, client, clock, upstream, status>>

\* Whether the transport may send the request again.  A buffered body, even an
\* empty one, comes without GetBody; the proxy is given r itself.
Replayable == req.replayable /\ (~req.buffer \/ req.path = "proxy")

Retries == function = "failed" /\ reused /\ Replayable /\ ~CallDone

Retry ==
  /\ pc = "await" /\ Retries
  /\ pc' = "call"
  /\ UNCHANGED <<req, client, clock, upstream, status>>

\* The body cannot be sent: the client cut it, or buffering has consumed the
\* body that the proxy goes on to read from r.
BodyLost == IF req.buffer THEN req.path = "proxy" /\ ~req.replayable ELSE clientBody = "cut"

AwaitFails ==
  /\ pc = "await" /\ req.path # "inproc"
  /\ CallDone \/ BodyLost \/ (function = "failed" /\ ~Retries)
  /\ pc' = "failed"
  /\ UNCHANGED <<req, client, clock, upstream, status>>

\* Mutant: the error of Client.Do is dropped.
FailedAsAnswered == "upstream"

\* The proxy's ErrorHandler is empty, which leaves net/http to answer 200.
FailedStatus ==
  CASE req.path = "proxy"                               -> "empty"
    [] req.path = "client" /\ (clientGone \/ deadline)  -> "504"
    [] OTHER                                            -> "500"

ReplyFailed ==
  /\ pc = "failed"
  /\ pc' = "done" /\ status' = FailedStatus
  /\ UNCHANGED <<req, client, clock, upstream>>

Respond ==
  /\ pc = "await" /\ function = "ok"
  /\ pc' = "copy" /\ status' = "upstream"
  /\ UNCHANGED <<req, client, clock, upstream>>

\* In process: the handler panics, which net/http recovers without an answer.
HandlerPanics ==
  /\ pc = "await" /\ req.path = "inproc" /\ function = "failed"
  /\ pc' = "done" /\ status' = "aborted"
  /\ UNCHANGED <<req, client, clock, upstream>>

\* The response body ends as the upstream likes, or with the call's context; an
\* error is only logged.
CopyEnds ==
  /\ pc = "copy"
  /\ pc' = "done"
  /\ UNCHANGED <<req, client, clock, upstream, status>>
CopyCancelled == CallDone /\ CopyEnds

\* The upstream answers or drops the connection, late ones included.
UpstreamEnds ==
  /\ function = "running"
  /\ function' \in {"ok", "failed"}
  /\ UNCHANGED <<req, pc, client, clock, idle, reused, calls, status>>

-----------------------------------------------------------------------------

Handler ==
  \/ BufferBody \/ NewRequest \/ NewRequestFails \/ Call \/ CallFails \/ Retry \/ AwaitFails
  \/ ReplyFailed \/ Respond \/ HandlerPanics \/ CopyCancelled

Next ==
  \/ Tick \/ TimerFires \/ ClientLeaves \/ ClientBodyEnds
  \/ Handler \/ CopyEnds \/ UpstreamEnds

\* The handler runs, time passes, and read_timeout ends a body that does not
\* come.  The upstream and the client owe nothing.
Fairness ==
  /\ WF_vars(Tick)
  /\ WF_vars(TimerFires)
  /\ WF_vars(ClientBodyEnds)
  /\ WF_vars(Handler)

Spec == Init /\ [][Next]_vars /\ Fairness

-----------------------------------------------------------------------------
(* Properties. *)

\* Every variable has its type, and a deadline comes of a positive timeout, or
\* of the in-process runner.
TypeOK ==
  /\ req \in Requests
  /\ pc \in {"buffer", "new", "call", "await", "failed", "copy", "done"}
  /\ clientBody \in {"open", "whole", "cut"} /\ clientGone \in BOOLEAN
  /\ elapsed \in 0..MaxElapsed /\ deadline \in BOOLEAN
  /\ deadline => Timeout > 0 \/ req.path = "inproc"
  /\ idle \in 0..MaxIdle /\ reused \in BOOLEAN
  /\ calls \in 0..(MaxIdle + 1) /\ function \in {"none", "running", "ok", "failed"}
  /\ status \in {"none", "upstream", "500", "504", "empty", "aborted"}

\* Whether the request has a limit, and which: exec_timeout, or an X-Timeout that is
\* not longer.  An exec_timeout of 0 or less is none, whatever the header says; and
\* neither, whatever exec_timeout says, is a header of 0s or less.
Limited ==
  /\ req.path = "client" /\ req.execTimeout > 0
  /\ req.xTimeout # <<>> => req.xTimeout[1] > 0

Asked ==
  IF req.xTimeout # <<>> /\ req.xTimeout[1] \in 1..req.execTimeout
    THEN req.xTimeout[1]
    ELSE req.execTimeout

\* A request with a limit is never waited for longer than that, through every call that
\* is repeated and to the end of the response (that its handler then ends is
\* HandlerFreed).  A client that stays is told 504 at no other moment and never without
\* a limit: not for an X-Timeout of 0s, after which nothing ends the wait.
TimesOutWhenAsked ==
  /\ Limited /\ InRun => elapsed <= Asked
  /\ status = "504" /\ ~clientGone => Limited /\ elapsed = Asked

\* A request with a timeout is answered, also when the upstream is silent or stops
\* in the middle of its response; proxied requests have none.  On either path a
\* handler does not wait for the upstream on behalf of a client that has left.
HandlerFreed ==
  \/ req.path = "client" /\ Timeout > 0
  \/ req.path # "inproc" /\ clientGone
  ~> pc = "done"

\* What has become of the function, which runs again if the call is repeated, and
\* what the client has been told of it.
Outcome == IF function = "failed" /\ (Retries \/ pc = "call") THEN "running" ELSE function

Told ==
  CASE status = "upstream" -> "output"
    [] status \in {"500", "504"} -> "error"
    [] status \in {"empty", "aborted"} -> "void"
    [] OTHER -> "none"

\* One start, one answer, and output only of a function that answered.
Runner == INSTANCE Invocation WITH function <- Outcome, answer <- Told
RefinesInvocation == Runner!Spec

=============================================================================

------------------------ MODULE ConcurrencyLimiter ------------------------
(***************************************************************************)
(* The concurrency limiter that Watchdog.Start wraps around the function   *)
(* handler when max_inflight > 0 (pkg/watchdog.go, lines 96-102).          *)
(*                                                                         *)
(* The limiter has no lock: it is two uint64 counters that every request   *)
(* goroutine reads and adds to with separate atomic operations.  Each      *)
(* atomic operation is one action here, so a request can be overtaken      *)
(* between taking its ticket (AddUint64 on requestsStarted) and comparing  *)
(* it with requestsCompleted.  The readiness handler calls Met, which      *)
(* reads the two counters with two separate loads.                         *)
(*                                                                         *)
(* A request goroutine may be reused for the next request of its           *)
(* connection, so behaviours are unbounded and only the number of          *)
(* simultaneous requests is a parameter.                                   *)
(***************************************************************************)
EXTENDS Integers, FiniteSets

CONSTANTS
  Requests,     \* request goroutines that may be inside the handler at once
  Probes,       \* goroutines serving /_/ready, which call Met
  MaxInflight,  \* maxInflightRequests
  Modulus,      \* the counters wrap at this value (2^64 in the code)
  MaxPanics     \* bound on the number of backend panics in a behaviour

ASSUME LimiterAssumption ==
  /\ IsFiniteSet(Requests)
  /\ MaxInflight \in Nat \ {0}
  /\ MaxPanics \in Nat
  /\ Modulus \in Nat
  /\ Cardinality(Requests) + MaxPanics < Modulus
  /\ MaxInflight < Modulus

VARIABLES
  requestsStarted,    \* cl.requestsStarted
  requestsCompleted,  \* cl.requestsCompleted
  pc,                 \* where each request goroutine is in ServeHTTP
  ticket,             \* the local requestsStarted each request drew
  metPc,              \* where each probe is in Met
  metStarted,         \* the local requestsStarted of each Met call
  met,                \* what the last Met call of each probe returned
  lost,               \* history: backend handlers that panicked
  overtaken           \* history: a ticket that was no longer the newest one
                      \* has been compared with requestsCompleted

limiterVars == <<requestsStarted, requestsCompleted, pc, ticket>>
metVars == <<metPc, metStarted, met>>
vars == <<limiterVars, metVars, lost, overtaken>>

(***************************************************************************)
(* uint64 arithmetic on 0..Modulus-1.                                      *)
(***************************************************************************)
Counter == 0..(Modulus - 1)

\* Mutated form of Inc: the counter is not brought back into uint64.
IncWithoutWrap(x) == x + 1

Inc(x) == IF x = Modulus - 1 THEN 0 ELSE x + 1

Diff(a, b) == IF a >= b THEN a - b ELSE a - b + Modulus

\* Requests that hold a ticket and have not given it back.
Inside == {r \in Requests : pc[r] # "idle"}

\* Requests whose function is executing.
Serving == {r \in Requests : pc[r] = "serving"}

\* What Met computes when nothing moves between its two loads.
LimitReached == Diff(requestsStarted, requestsCompleted) >= MaxInflight

Init ==
  /\ requestsStarted = 0
  /\ requestsCompleted = 0
  /\ pc = [r \in Requests |-> "idle"]
  /\ ticket = [r \in Requests |-> 0]
  /\ metPc = [p \in Probes |-> "idle"]
  /\ metStarted = [p \in Probes |-> 0]
  /\ met = [p \in Probes |-> FALSE]
  /\ lost = 0
  /\ overtaken = FALSE

(***************************************************************************)
(* ServeHTTP                                                               *)
(***************************************************************************)
\* atomic.AddUint64(&cl.requestsStarted, 1)
TakeTicket(r) ==
  /\ pc[r] = "idle"
  /\ requestsStarted' = Inc(requestsStarted)
  /\ ticket' = [ticket EXCEPT ![r] = requestsStarted']
  /\ pc' = [pc EXCEPT ![r] = "checking"]
  /\ UNCHANGED <<requestsCompleted, metVars, lost, overtaken>>

\* Mutated form of CheckLimit: refuses when the limit is reached, not exceeded.
CheckLimitRefusesAtMax(r) ==
  /\ pc[r] = "checking"
  /\ pc' = [pc EXCEPT ![r] =
              IF Diff(ticket[r], requestsCompleted) >= MaxInflight
              THEN "refused" ELSE "serving"]
  /\ overtaken' = (overtaken \/ ticket[r] # requestsStarted)
  /\ UNCHANGED <<requestsStarted, requestsCompleted, ticket, metVars, lost>>

\* Mutated form of CheckLimit: the request does not count itself.
CheckLimitForgetsItself(r) ==
  /\ pc[r] = "checking"
  /\ pc' = [pc EXCEPT ![r] =
              IF Diff(ticket[r], requestsCompleted) - 1 > MaxInflight
              THEN "refused" ELSE "serving"]
  /\ overtaken' = (overtaken \/ ticket[r] # requestsStarted)
  /\ UNCHANGED <<requestsStarted, requestsCompleted, ticket, metVars, lost>>

\* atomic.LoadUint64(&cl.requestsCompleted) and the comparison with the limit.
CheckLimit(r) ==
  /\ pc[r] = "checking"
  /\ pc' = [pc EXCEPT ![r] =
              IF Diff(ticket[r], requestsCompleted) > MaxInflight
              THEN "refused" ELSE "serving"]
  /\ overtaken' = (overtaken \/ ticket[r] # requestsStarted)
  /\ UNCHANGED <<requestsStarted, requestsCompleted, ticket, metVars, lost>>

\* Mutated form of Refuse: a refused request keeps its ticket.
RefuseKeepsTicket(r) ==
  /\ pc[r] = "refused"
  /\ pc' = [pc EXCEPT ![r] = "idle"]
  /\ UNCHANGED <<requestsStarted, requestsCompleted, ticket, metVars, lost, overtaken>>

\* The failure pathway: give the ticket back and answer 429.
Refuse(r) ==
  /\ pc[r] = "refused"
  /\ requestsCompleted' = Inc(requestsCompleted)
  /\ pc' = [pc EXCEPT ![r] = "idle"]
  /\ UNCHANGED <<requestsStarted, ticket, metVars, lost, overtaken>>

\* backendHTTPHandler.ServeHTTP has returned.
Complete(r) ==
  /\ pc[r] = "serving"
  /\ requestsCompleted' = Inc(requestsCompleted)
  /\ pc' = [pc EXCEPT ![r] = "idle"]
  /\ UNCHANGED <<requestsStarted, ticket, metVars, lost, overtaken>>

\* The backend handler panics (an in-process function does, or ReverseProxy
\* raises http.ErrAbortHandler); net/http recovers above ServeHTTP, whose last
\* line, not being deferred, never runs.
BackendPanic(r) ==
  /\ pc[r] = "serving"
  /\ lost < MaxPanics
  /\ lost' = lost + 1
  /\ pc' = [pc EXCEPT ![r] = "idle"]
  /\ UNCHANGED <<requestsStarted, requestsCompleted, ticket, metVars, overtaken>>

(***************************************************************************)
(* Met, called by readiness.LimitMet                                       *)
(***************************************************************************)
MetLoadStarted(p) ==
  /\ metPc[p] = "idle"
  /\ metStarted' = [metStarted EXCEPT ![p] = requestsStarted]
  /\ metPc' = [metPc EXCEPT ![p] = "loaded"]
  /\ UNCHANGED <<limiterVars, met, lost, overtaken>>

MetLoadCompleted(p) ==
  /\ metPc[p] = "loaded"
  /\ met' = [met EXCEPT ![p] =
               Diff(metStarted[p], requestsCompleted) >= MaxInflight]
  /\ metPc' = [metPc EXCEPT ![p] = "idle"]
  /\ UNCHANGED <<limiterVars, metStarted, lost, overtaken>>

Next ==
  \/ \E r \in Requests : TakeTicket(r)
  \/ \E r \in Requests : CheckLimit(r)
  \/ \E r \in Requests : Refuse(r)
  \/ \E r \in Requests : Complete(r)
  \/ \E r \in Requests : BackendPanic(r)
  \/ \E p \in Probes : MetLoadStarted(p)
  \/ \E p \in Probes : MetLoadCompleted(p)

Spec == Init /\ [][Next]_vars

---------------------------------------------------------------------------
(***************************************************************************)
(* Properties                                                              *)
(***************************************************************************)
\* Where a request goroutine can be in ServeHTTP.
ServePc == {"idle", "checking", "refused", "serving"}

\* Type invariant: the counters stay uint64, every goroutine is at a line of its
\* function.
TypeOK ==
  /\ requestsStarted \in Counter
  /\ requestsCompleted \in Counter
  /\ pc \in [Requests -> ServePc]
  /\ ticket \in [Requests -> Counter]
  /\ metPc \in [Probes -> {"idle", "loaded"}]
  /\ metStarted \in [Probes -> Counter]
  /\ met \in [Probes -> BOOLEAN]
  /\ lost \in 0..MaxPanics
  /\ overtaken \in BOOLEAN

\* No ticket is created or destroyed: across wrap-around, the difference of the
\* two counters is the number of requests inside ServeHTTP plus the tickets of
\* requests whose handler panicked.  Every path out of ServeHTTP must give its
\* ticket back exactly once for this to survive.
TicketsConserved ==
  Diff(requestsStarted, requestsCompleted) = Cardinality(Inside) + lost

\* A request that still holds the newest ticket when it compares is judged
\* exactly: it is refused if and only if more than MaxInflight tickets are out.
NewestTicketExact ==
  [][\A r \in Requests :
        pc[r] = "checking" /\ pc'[r] # "checking" /\ ticket[r] = requestsStarted
          => (pc'[r] = "refused" <=> Cardinality(Inside) + lost > MaxInflight)]_vars

\* max_inflight holds as long as no request has been overtaken between drawing
\* its ticket and comparing it: the limit can only be exceeded through that race.
LimitHoldsUnlessOvertaken ==
  ~overtaken => Cardinality(Serving) <= MaxInflight

(***************************************************************************)
(* What the documentation says of max_inflight and the code does not keep: *)
(* the property of a run that expects a violation.                         *)
(***************************************************************************)
\* README, max_inflight: "Limit the maximum number of requests in flight".
InflightNeverExceedsMax == Cardinality(Serving) <= MaxInflight

===========================================================================

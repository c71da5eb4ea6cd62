-------------------------- MODULE GracefulServer --------------------------
(***************************************************************************)
(* What listenUntilShutdown promises its clients, without goroutines,      *)
(* signals, channels or lock files: the server opens, serves, drains and   *)
(* stops, in that order.  Once it drains it always stops, and it stops     *)
(* cleanly only with no request in progress.                               *)
(***************************************************************************)
EXTENDS FiniteSets

CONSTANT Clients

VARIABLES
  phase,    \* "starting", "serving", "draining" or "stopped"
  active,   \* the clients whose request is being handled
  outcome   \* how it stopped

vars == <<phase, active, outcome>>

TypeOK ==
  /\ phase \in {"starting", "serving", "draining", "stopped"}
  /\ active \subseteq Clients
  /\ outcome \in {"none", "clean", "timedOut", "failed"}

Init ==
  /\ phase = "starting"
  /\ active = {}
  /\ outcome = "none"

Open ==
  /\ phase = "starting"
  /\ phase' = "serving"
  /\ UNCHANGED <<active, outcome>>

\* A connection opened before draining may still send a request during it.
Begin(c) ==
  /\ phase \in {"serving", "draining"}
  /\ c \notin active
  /\ active' = active \cup {c}
  /\ UNCHANGED <<phase, outcome>>

End(c) ==
  /\ phase # "stopped"
  /\ c \in active
  /\ active' = active \ {c}
  /\ UNCHANGED <<phase, outcome>>

Drain ==
  /\ phase \in {"starting", "serving"}
  /\ phase' = "draining"
  /\ UNCHANGED <<active, outcome>>

StopAs(result) ==
  /\ phase # "stopped"
  /\ result \in {"clean", "timedOut"} => phase = "draining"
  /\ result = "clean" => active = {}
  /\ phase' = "stopped"
  /\ outcome' = result
  /\ UNCHANGED active

StopDraining ==
  phase = "draining" /\ \E result \in {"clean", "timedOut", "failed"} : StopAs(result)

Next ==
  \/ Open
  \/ \E c \in Clients : Begin(c)
  \/ \E c \in Clients : End(c)
  \/ Drain
  \/ StopDraining
  \/ StopAs("failed")

Spec == Init /\ [][Next]_vars /\ WF_vars(StopDraining)

===========================================================================

---------------------------- MODULE MCLifecycle ----------------------------
(***************************************************************************)
(* Small instances of Lifecycle for TLC.                                   *)
(***************************************************************************)
EXTENDS Lifecycle

\* The default configuration: streaming, lock file, positive interval.
Default == [suppressLock |-> FALSE, healthcheckInterval |-> 1, samePort |-> FALSE,
            jwtAuth |-> FALSE, faults |-> {}]

\* One configuration per option that changes the control flow, without faults,
\* with every fault at once, and with the two faults that meet in a double close.
AllConfigs ==
  {Default,
   [Default EXCEPT !.suppressLock = TRUE],
   [Default EXCEPT !.healthcheckInterval = 0],
   [Default EXCEPT !.samePort = TRUE],
   [Default EXCEPT !.faults = {"bind", "accept"}],
   [Default EXCEPT !.jwtAuth = TRUE, !.faults = Fault]}

DefaultOnly == {Default}

=============================================================================

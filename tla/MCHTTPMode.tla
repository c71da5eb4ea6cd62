----------------------------- MODULE MCHTTPMode -----------------------------
(***************************************************************************)
(* Small instances of HTTPMode for TLC.                                    *)
(***************************************************************************)
EXTENDS HTTPMode

Default == [suppressLock |-> FALSE, healthcheckInterval |-> 1, samePort |-> FALSE,
            jwtAuth |-> FALSE, faults |-> {}]

\* The default configuration, and one whose listener fails.
DefaultAndFault == {Default, [Default EXCEPT !.faults = {"bind", "accept"}]}

=============================================================================

--------------------------- MODULE MCRequestPath ---------------------------
(***************************************************************************)
(* Small instances of RequestPath for TLC.                                 *)
(***************************************************************************)
EXTENDS RequestPath, TLC

\* Request goroutines are interchangeable.
Interchangeable == Permutations(Requests)

\* The default: no max_inflight, no jwt_auth, no ready_path.
Default == [limited |-> FALSE, jwtAuth |-> FALSE, readyPath |-> FALSE,
            suppressLock |-> FALSE, staleLock |-> FALSE]

\* The most a request passes through.
FullStack == [Default EXCEPT !.limited = TRUE, !.jwtAuth = TRUE, !.readyPath = TRUE]

\* Both with a lock file of their own, the least also with none and with an old one.
AllConfigs ==
  {FullStack} \cup [limited : {FALSE}, jwtAuth : {FALSE}, readyPath : {FALSE},
                    suppressLock : BOOLEAN, staleLock : BOOLEAN]

=============================================================================

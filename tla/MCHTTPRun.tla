------------------------------ MODULE MCHTTPRun ------------------------------
(***************************************************************************)
(* Small instances of HTTPRun for TLC.                                     *)
(***************************************************************************)
EXTENDS HTTPRun

\* A negative exec_timeout, none, and one of 2; X-Timeout absent, negative, zero,
\* shorter, equal and longer.
AllRequests ==
  [path : {"client", "proxy", "inproc"}, execTimeout : {-1, 0, 2},
   xTimeout : {<<>>, <<-1>>, <<0>>, <<1>>, <<2>>, <<3>>}, buffer : BOOLEAN, replayable : BOOLEAN]

=============================================================================

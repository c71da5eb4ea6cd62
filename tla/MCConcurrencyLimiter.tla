----------------------- MODULE MCConcurrencyLimiter -----------------------
(***************************************************************************)
(* Small instances of ConcurrencyLimiter for TLC.                          *)
(***************************************************************************)
EXTENDS ConcurrencyLimiter, TLC

\* Request goroutines are interchangeable.
Interchangeable == Permutations(Requests)

===========================================================================

---------------------------- MODULE MCForkRunner ----------------------------
(***************************************************************************)
(* Small instances of ForkRunner for TLC.                                  *)
(***************************************************************************)
EXTENDS ForkRunner

AllConfigs == Config

=============================================================================

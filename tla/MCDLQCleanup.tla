---------------------------- MODULE MCDLQCleanup ----------------------------
(***************************************************************************)
(* Small instances of DLQCleanup for TLC.                                  *)
(***************************************************************************)
EXTENDS DLQCleanup

CONSTANTS d1, d2
=============================================================================

---------------------------- MODULE MCLeadership ----------------------------
(***************************************************************************)
(* Small instances of Leadership for TLC.                                  *)
(***************************************************************************)
EXTENDS Leadership

CONSTANTS d1, d2
=============================================================================

----------------------------- MODULE MCReconnect -----------------------------
(***************************************************************************)
(* Small instances of Reconnect for TLC.                                   *)
(***************************************************************************)
EXTENDS Reconnect, TLC

CONSTANTS d1, d2, none

Symmetric == Permutations(Drivers)
=============================================================================

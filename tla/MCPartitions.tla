---------------------------- MODULE MCPartitions ----------------------------
(***************************************************************************)
(* Small instances of Partitions for TLC.                                  *)
(***************************************************************************)
EXTENDS Partitions

CONSTANTS d1, d2
=============================================================================

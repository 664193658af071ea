------------------------ MODULE MCReplicaPartitions ------------------------
(***************************************************************************)
(* Small instances of ReplicaPartitions for TLC.                           *)
(***************************************************************************)
EXTENDS ReplicaPartitions

CONSTANTS d1, d2
=============================================================================

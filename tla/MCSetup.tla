------------------------------- MODULE MCSetup -------------------------------
(***************************************************************************)
(* Instances of Setup for TLC.                                             *)
(***************************************************************************)
EXTENDS Setup, TLC

RolesAlike == Permutations(Roles)
=============================================================================

---------------------------- MODULE MCGroupOwner ----------------------------
(***************************************************************************)
(* Small instances of GroupOwner for TLC.  No symmetry is declared, as the *)
(* runs check liveness properties.                                         *)
(***************************************************************************)
EXTENDS GroupOwner
=============================================================================

---------------------------- MODULE MCDeviceLink ----------------------------
(***************************************************************************)
(* A small instance of DeviceLink, and of its datagrams as bytes, for TLC. *)
(* No symmetry is declared, as the run checks a liveness property.         *)
(***************************************************************************)
EXTENDS DeviceWire
=============================================================================

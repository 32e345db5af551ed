--------------------------- MODULE MCCoordinator ---------------------------
(***************************************************************************)
(* Small instances of Coordinator, and of the client in it, for TLC.       *)
(***************************************************************************)
EXTENDS Coordinator

CONSTANTS off, on

\* A switch that is only turned on.
TurnOn == {<<1, on>>}

OnOrIdentify == TurnOn \cup {Identify}
=============================================================================

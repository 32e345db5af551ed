----------------------------- MODULE MCMigration -----------------------------
(***************************************************************************)
(* A small instance of Migration for TLC: two entries, of one speaker or   *)
(* of two.                                                                 *)
(***************************************************************************)
EXTENDS Migration, TLC

Symmetry == Permutations(Entries) \cup Permutations(Speakers)
=============================================================================

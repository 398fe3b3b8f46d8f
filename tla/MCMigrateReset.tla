---------------------------- MODULE MCMigrateReset ----------------------------
(* A small instance of MigrateReset for TLC. *)
EXTENDS MigrateReset

CONSTANTS r1, r2, r3
=============================================================================

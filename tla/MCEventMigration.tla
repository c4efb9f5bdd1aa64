-------------------------- MODULE MCEventMigration --------------------------
(* The instances of EventMigration that TLC checks are given in the cfg files. *)
EXTENDS EventMigration

=============================================================================

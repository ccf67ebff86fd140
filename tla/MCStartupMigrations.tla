------------------------- MODULE MCStartupMigrations -------------------------
(* Small instances of StartupMigrations for TLC.                           *)
EXTENDS StartupMigrations
=============================================================================

----------------------------- MODULE MCMigrations -----------------------------
(***************************************************************************)
(* Values of the constants of Migrations for TLC: instances of three       *)
(* releases, the newest with a migration that fails.                       *)
(***************************************************************************)
EXTENDS Migrations

CONSTANTS old, new, newest, none

ThreeRunners == {old, new, newest}
ThreeReleases == [r \in ThreeRunners |-> CASE r = old -> 1 [] r = new -> 2 [] r = newest -> 3]
ThirdIsBroken == {3}
=============================================================================

---------------------------- MODULE MCMigrations ----------------------------
(* An instance of Migrations for TLC: every version a database can be found in. *)
EXTENDS Migrations

UpgradeSpec == UpgradeInit /\ [][UpgradeNext]_upgradeVars
=============================================================================

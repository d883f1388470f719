---------------------------- MODULE MasterDatabase ----------------------------
(***************************************************************************)
(* The database behind the panel: the SQLite file of a default             *)
(* installation or the PostgreSQL of the compose deployment.  They differ  *)
(* in what is locked, in which ids are used again and in what a failed     *)
(* statement leaves of its transaction.                                    *)
(***************************************************************************)
VARIABLE database

Databases == {"sqlite", "postgresql"}
DatabaseInit == database \in Databases
Sqlite == database = "sqlite"
Postgres == database = "postgresql"
=============================================================================

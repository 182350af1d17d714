-------------------------- MODULE MCStateMigration --------------------------
(***************************************************************************)
(* Constant definitions for the model checking of StateMigration: a        *)
(* process that marks and resets a provider and records samples, one that  *)
(* only records, and a user of the database.                               *)
(***************************************************************************)
EXTENDS StateMigration, TLC

CONSTANTS t1, t2, server, cli

MCProcessOf == (t1 :> server) @@ (t2 :> cli)
=============================================================================

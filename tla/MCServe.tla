-------------------------------- MODULE MCServe --------------------------------
(***************************************************************************)
(* Instance of Serve, and of the Migrations inside it, for TLC.            *)
(***************************************************************************)
EXTENDS Serve

CONSTANTS server, command
=============================================================================

---------------------------- MODULE MCConnection ----------------------------
(* Model values of the server connection for TLC; see the .cfg files. *)
EXTENDS Connection
=============================================================================

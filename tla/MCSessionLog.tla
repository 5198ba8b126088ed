---------------------------- MODULE MCSessionLog ----------------------------
(* Model values of the session log for TLC; see the .cfg files. *)
EXTENDS SessionLog, TLC

Symmetry == Permutations(Session)
=============================================================================

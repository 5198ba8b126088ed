------------------------------ MODULE MCUpload ------------------------------
(* Model values of the upload connection for TLC; see the .cfg files. *)
EXTENDS Upload
=============================================================================

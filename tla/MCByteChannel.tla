--------------------------- MODULE MCByteChannel ---------------------------
(* Model values of the byte channel for TLC; see the .cfg files. *)
EXTENDS ByteChannel
=============================================================================

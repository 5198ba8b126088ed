---------------------------- MODULE MCSpscRing ----------------------------
(* A ring of two places, three values to push, two distinguishable values. *)
EXTENDS SpscRing
=============================================================================

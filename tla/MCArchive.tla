----------------------------- MODULE MCArchive -----------------------------
(* Names and order of the file sink and the archive for TLC. *)
EXTENDS Archive

MCSmall == {<<"s">>, <<"d", "..", "..", "s">>}
MCBig   == {<<"", "d", ".", "b">>}
MCOrder == SetToSeq(Path)
Symmetry == Permutations(Conn)
=============================================================================

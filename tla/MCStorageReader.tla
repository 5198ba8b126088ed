-------------------------- MODULE MCStorageReader --------------------------
(* Storage readers for TLC: one reads an empty file, one a file of a single *)
(* block, and one a file with more blocks than it has buffers.              *)
EXTENDS StorageReader
CONSTANTS r1, r2, r3

MCBlocks == [r \in Reader |-> CASE r = r1 -> {1} [] r = r2 -> {3} [] r = r3 -> {0}]
=============================================================================

--------------------------- MODULE MCSharedChannel ---------------------------
(* SharedChannel for TLC: two requests, which are interchangeable. *)
EXTENDS SharedChannel, TLC

CONSTANTS s1, s2

StreamSymmetry == Permutations(Streams)
=============================================================================

------------------------------ MODULE MCLists ------------------------------
(* Small instances of Lists. *)
EXTENDS Lists, TLC

MCIds == 1..3
MCSymmetry == Permutations(Writers) \cup Permutations(Fetches)
=============================================================================

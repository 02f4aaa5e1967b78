---------------------------- MODULE MCSessionCache ----------------------------
(* Small instances of SessionCache. *)
EXTENDS SessionCache, TLC

MCSymmetry == Permutations(Handlers) \cup Permutations(Actors)
=============================================================================

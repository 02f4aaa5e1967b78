---------------------------- MODULE MCMembership ----------------------------
(* Small instances of Membership. *)
EXTENDS Membership, TLC

MCSymmetry == Permutations(Requests)
=============================================================================

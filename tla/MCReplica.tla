----------------------------- MODULE MCReplica -----------------------------
(* Small instances of Replica. *)
EXTENDS Replica, TLC

\* three bits: what begins with 1 is private, what begins with 11 is allowed, and 111 is
\* never called all the same
MCAddresses == {<<1, 0, 1>>, <<1, 1, 0>>, <<1, 1, 1>>}
MCAlwaysBlocked == {[base |-> <<1, 1, 1>>, bits |-> 3]}
MCDefaultBlocked == {[base |-> <<1, 0, 0>>, bits |-> 1]}
MCAllowed == {[base |-> <<1, 1, 0>>, bits |-> 2]}

MCSymmetry == Permutations(Requests)
=============================================================================

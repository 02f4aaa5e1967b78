----------------------------- MODULE MCCreditTx -----------------------------
(* Small instances of CreditTx. *)
EXTENDS CreditTx, TLC

\* one credit, and all that a purchase brings
MCTokens == {1000, 2000}
MCOneToken == {1000}
MCPurchaseSizes == {2}

MCSymmetry == Permutations(Tx) \cup Permutations(Events)
=============================================================================

--------------------------- MODULE MCCreditAccount ---------------------------
(* Small instances of CreditAccount. *)
EXTENDS CreditAccount

\* 0, an exact thousand, one token more, and a large count: 1, 1, 2 and 3 credits
MCTokens == {0, 1000, 1001, 2500}
MCPurchaseSizes == {2, 3}
=============================================================================

------------------------------- MODULE Totals -------------------------------
(***************************************************************************)
(* Sums over numbered rows.  SELECT sum(...) over a table is needed to say *)
(* that the balances agree with the ledger.  The sum is a recursive        *)
(* function, not a fold over a set, so that module Totals_proofs can prove *)
(* for every table how it changes when a row is added or updated.          *)
(***************************************************************************)
EXTENDS Integers

PartialSums(f, n) ==
  LET sum[i \in 0..n] == IF i = 0 THEN 0 ELSE sum[i - 1] + f[i] IN sum

\* f[1] + ... + f[n]
Total(f, n) == PartialSums(f, n)[n]
=============================================================================

------------------------------- MODULE Pricing -------------------------------
(***************************************************************************)
(* Whole credits for a number of model tokens: one credit for every        *)
(* started thousand tokens and at least one credit.                        *)
(* (packages/shared/src/pricing.ts)                                        *)
(***************************************************************************)
EXTENDS Integers

TokensPerCredit == 1000

\* Math.ceil(totalTokens / 1000)
StartedThousands(totalTokens) ==
  (totalTokens + TokensPerCredit - 1) \div TokensPerCredit

\* Math.max(1, Math.ceil(totalTokens / 1000))
calculateCreditsFromTokens(totalTokens) ==
  IF StartedThousands(totalTokens) > 1 THEN StartedThousands(totalTokens) ELSE 1

Lesser(a, b) == IF a <= b THEN a ELSE b
=============================================================================

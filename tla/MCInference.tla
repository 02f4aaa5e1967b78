----------------------------- MODULE MCInference -----------------------------
(* Small instances of Inference. *)
EXTENDS Inference, TLC

\* one credit and three: a body that is affordable and one that is not, and a
\* usage within the hold and one above it
MCTokens == {1000, 3000}
MCOneToken == {1000}
\* enough for two small requests
MCTwoCredits == {2}
MCOneCredit == {1}

MCSymmetry == Permutations(Keys)
=============================================================================

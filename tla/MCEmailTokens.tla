--------------------------- MODULE MCEmailTokens ---------------------------
(* EmailTokens on a small instance: ids and requests are interchangeable.  *)
EXTENDS EmailTokens, TLC

Symmetry == Permutations(VerificationToken) \cup Permutations(ResetToken)
                \cup Permutations(Request)
=============================================================================

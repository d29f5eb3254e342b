------------------------- MODULE MCOAuthIdentities -------------------------
(* OAuthIdentities on a small instance.                                    *)
EXTENDS OAuthIdentities, TLC

Symmetry == Permutations(User) \cup Permutations(Provider) \cup Permutations(Subject)
                \cup Permutations(Key) \cup Permutations(Request)
=============================================================================

---------------------------- MODULE MCRateLimit ----------------------------
(* RateLimit for two instances, one of which may have a fast clock.        *)
EXTENDS RateLimit, TLC

Symmetry == Permutations(Instance)
=============================================================================

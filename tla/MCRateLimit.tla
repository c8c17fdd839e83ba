---------------------------- MODULE MCRateLimit ----------------------------
(* RateLimit for TLC: keys and callers are interchangeable. *)
EXTENDS RateLimit, TLC

Symmetry == Permutations(Keys) \cup Permutations(Callers)
=============================================================================
